---- MODULE Spec2Model ----
(***************************************************************************)
(* Porta API gateway: the proxy pipeline.                                  *)
(*                                                                         *)
(*   proxy.Factory  compiles an EndpointConfig into a proxy graph          *)
(*   Merge          fans out to K single-backend stacks and merges         *)
(*   Concurrent     races N copies of one call, first success wins         *)
(*   Stack call     one request walking the layers of a compiled stack     *)
(*   Handler        the router's endpoint handler (mux and gin)            *)
(*   Balancer       the round-robin and random load balancers              *)
(*   HTTP caller    one exchange with a backend over HTTP                  *)
(*   Formatter      the entity formatter applied to a decoded object       *)
(*   Middleware     wiring a middleware and one call through it            *)
(*   Router         registration of the configured endpoints               *)
(*   Limiter        the sliding-window rate limiter and its cleanup        *)
(*   Health         the health checker's executions and GetHealth          *)
(*                                                                         *)
(* Each component has its own variables, its own initial condition and     *)
(* its own specification; the variables of the other components stay in    *)
(* their idle value.                                                       *)
(***************************************************************************)
EXTENDS Integers, Sequences, FiniteSets, TLC

\* ------------------------------------------------------------------ bounds
MaxBackends == 3
MaxConcurrentCalls == 3
MaxTimeout == 2
MaxTime == 3
MaxHosts == 3
MaxGoroutines == 2
MaxCalls == 6
MaxPaths == 2
MaxNext == 2
MaxEndpoints == 2
MaxClock == 3
MaxWindow == 2
MaxLimit == 2
MaxN == 2
MaxExecutions == 2

\* ------------------------------------------------------------------ state
\* factory and stack call
VARIABLES
    fCfg,       \* the endpoint configuration handed to Factory.New
    fPc,        \* "init" before Factory.New, "built" after
    fProxy,     \* the proxy Factory.New returned
    fErr,       \* the error Factory.New returned
    cPc,        \* "idle", "walking" or "done": one invocation of a stack
    cLayers,    \* the layers of the invoked stack, outermost first
    cPos,       \* the layer the call is about to enter
    cIn,        \* the request the stack was invoked with
    cReq,       \* the request as the current layer receives it
    cFan,       \* number of parallel copies of the call at the current layer
    cLBHits,    \* how many times the call entered the load-balance layer
    cLBReq,     \* the request the load-balance layer received
    cHTTPReq,   \* the request the HTTP caller received
    cCounter    \* roundRobinLB.counter of the stack's balancer

fVars == <<fCfg, fPc, fProxy, fErr>>
cVars == <<cPc, cLayers, cPos, cIn, cReq, cFan, cLBHits, cLBReq, cHTTPReq, cCounter>>

\* merge middleware
VARIABLES
    mCfg,        \* the endpoint configuration
    mNext,       \* the downstream proxies the merge middleware wraps
    mKeys,       \* per backend, the key set of its response object
    mPc,         \* "idle", "collecting", "done" (all collected), "cancelled"
    mWorker,     \* per downstream proxy: "idle", "running", "sent"
    mOutcome,    \* per backend: "none", "ok", "fail"
    mChan,       \* the buffered result channel
    mOrder,      \* the backends in the order their results were collected
    mAcc,        \* the accumulator object
    mIsComplete, \* the isComplete flag of the collecting loop
    mErr,        \* the error of the failure collected last
    mFailed,     \* number of failures collected
    mCtxDone,    \* the caller's context has fired
    mRet         \* what Merge returned

mVars == <<mCfg, mNext, mKeys, mPc, mWorker, mOutcome, mChan, mOrder, mAcc,
           mIsComplete, mErr, mFailed, mCtxDone, mRet>>

\* concurrent middleware
VARIABLES
    kLayer,       \* the concurrent layer, outermost layer of a compiled stack
    kPc,          \* "idle", "collecting", "returned", "cancelled"
    kWorker,      \* per worker: "idle", "running", "sent"
    kOutcome,     \* per worker: "none", "ok", "fail"
    kChan,        \* the result channel, capacity N
    kSeen,        \* the tuples the middleware has taken from the channel
    kErr,         \* the last observed error
    kCtxDone,     \* the caller's context is cancelled
    kChildDone,   \* the middleware has cancelled the child context
    kRet          \* what the middleware returned

kVars == <<kLayer, kPc, kWorker, kOutcome, kChan, kSeen, kErr, kCtxDone, kChildDone, kRet>>

\* endpoint handler
VARIABLES
    hKind,         \* "mux" (router.go), "muxOld" (endpoint.go) or "gin"
    hCfg,          \* the endpoint configuration: Method, Timeout, CacheTTL
    hMethod,       \* the method of the inbound request
    hBackend,      \* "responds" or "never": does the backend ever answer
    hPc,           \* "idle", "accepted", "proxy", "check", "returned"
    hNow,          \* the clock, in nanoseconds
    hStart,        \* the instant the handler derived its context
    hDeadline,     \* the deadline of the derived context, NoDeadline before
    hProxyCtx,     \* the deadline of the context handed to the proxy
    hProxyCalls,   \* number of invocations of the compiled proxy
    hResp,         \* the response the proxy returned
    hErr,          \* the error the proxy returned
    hSawDone,      \* the handler's select found the context done
    hCancels,      \* number of calls of the derived context's cancel
    hStatus,       \* the status code on the wire, NoStatus before
    hBody,         \* the chunks written to the response body
    hCacheControl, \* the Cache-Control header, NoHeader when not set
    hErrors,       \* the errors attached to the gin context
    hInboundDone   \* the inbound request's context is cancelled (client gone)

hVars == <<hKind, hCfg, hMethod, hBackend, hPc, hNow, hStart, hDeadline, hProxyCtx,
           hProxyCalls, hResp, hErr, hSawDone, hCancels, hStatus, hBody,
           hCacheControl, hErrors, hInboundDone>>

\* load balancer
VARIABLES
    bKind,       \* "roundRobin" or "random"
    bSubscriber, \* "fixed" (FixedSubscriber) or "flaky" (may fail, may be empty)
    bHosts,      \* the subscriber's host list
    bCounter,    \* roundRobinLB.counter
    bPc,         \* per goroutine: "idle" or "pick" (between Hosts() and the pick)
    bLocal,      \* per goroutine: what subscriber.Hosts() returned to the call
                 \* it is in
    bRet,        \* per goroutine: what its last Host() call returned
    bIssued,     \* number of Host() calls started
    bPicked,     \* number of Host() calls that returned a host
    bLast,       \* the host returned by the call that picked last
    bCount,      \* per host, the number of calls of a round-robin balancer
                 \* that returned it
    bRnd         \* the goroutines inside randomLB.rnd.Intn

bVars == <<bKind, bSubscriber, bHosts, bCounter, bPc, bLocal, bRet, bIssued, bPicked,
           bLast, bCount, bRnd>>

\* HTTP backend caller
VARIABLES
    pPc,            \* "idle", "start", "sent" (Do returned), "select", "returned"
    pURLOk,         \* http.NewRequest accepts the request
    pBody,          \* the backend's body: "object", "empty" ({}) or "malformed"
    pCtxDone,       \* the call's context is done
    pExchange,      \* what client.Do returned: "none", "response" or "error"
    pStatusCode,    \* the status code of the backend's response
    pReqBodyClosed, \* the body of the request to the backend was closed
    pBodyClosed,    \* the body of the backend's response was closed
    pDecoded,       \* the decoder was run on the response body
    pRet            \* what the caller returned

pVars == <<pPc, pURLOk, pBody, pCtxDone, pExchange, pStatusCode, pReqBodyClosed,
           pBodyClosed, pDecoded, pRet>>

\* entity formatter
VARIABLES
    eCfg,   \* the arguments of NewEntityFormatter
    ePc,    \* "idle", "built" or "formatted"
    eIn,    \* the response handed to Format
    eOut    \* the response Format returned

eVars == <<eCfg, ePc, eIn, eOut>>

\* middleware wiring and call
VARIABLES
    wMw,        \* "RequestBuilder", "LoadBalance", "Logging" or "Empty"
    wN,         \* the number of downstream proxies the middleware is given
    wPc,        \* "idle", "wire", "wired", "downstream", "returned", "panicked"
    wPanic,     \* where a panic happened ("none", "wire", "call") and its value
    wProxy,     \* what the middleware returned: "none", "wrapper" or "next"
    wHostRes,   \* what the balancer's Host() yields for this call
    wHeap,      \* the maps and URL objects requests refer to, by address
    wOrigin,    \* the caller's request
    wBefore,    \* the caller's request, with its maps, as it was before the call
    wLocal,     \* the middleware's clone r
    wTarget,    \* the request the downstream got a pointer to: "origin", "local"
    wDownCalls, \* number of invocations of the downstream proxy
    wDownReq,   \* the request, with its maps, as the downstream received it
    wRet        \* what the call returned

wVars == <<wMw, wN, wPc, wPanic, wProxy, wHostRes, wHeap, wOrigin, wBefore, wLocal,
           wTarget, wDownCalls, wDownReq, wRet>>

\* router registration
VARIABLES
    rKind,       \* "mux" or "gin"
    rEndpoints,  \* cfg.Endpoints
    rPos,        \* index of the endpoint the registration loop is at
    rPc,         \* "idle", "loop", "done"
    rRegistered, \* indices of the endpoints handed to the engine
    rLog         \* the error log, one entry per dropped endpoint

rVars == <<rKind, rEndpoints, rPos, rPc, rRegistered, rLog>>

\* sliding-window rate limiter
VARIABLES
    lCfg,       \* the RateLimitConfig: WindowSize, RequestsPerSecond
    lNow,       \* time.Now(), in units of the clock
    lWindows,   \* swl.windows, per key
    lAdmitted,  \* per key, the instants of the admitted requests that lie
                \* within the trailing WindowSize
    lLast       \* the latest AllowN: what it returned, how many it admitted

lVars == <<lCfg, lNow, lWindows, lAdmitted, lLast>>

\* health checker
VARIABLES
    hcMu,       \* hc.mu: the holder of the write lock (NoHolder: none) and
                \* the number of read locks
    hcExec,     \* per executeCheck goroutine: its position and its result
    hcCheck,    \* the registered *HealthCheck: Status and Message
                \* (LastChecked and Duration are written along with Message)
    hcReader,   \* GetHealth: "idle", "reading" (inside the read lock)
    hcCopy      \* the copy of the check GetHealth took

hcVars == <<hcMu, hcExec, hcCheck, hcReader, hcCopy>>

vars == <<fVars, cVars, mVars, kVars, hVars, bVars, pVars, eVars, wVars, rVars, lVars, hcVars>>

\* what the actions of one component leave alone
notFactory == <<mVars, kVars, hVars, bVars, pVars, eVars, wVars, rVars, lVars, hcVars>>
notMerge == <<fVars, cVars, kVars, hVars, bVars, pVars, eVars, wVars, rVars, lVars, hcVars>>
notConcurrent == <<fVars, cVars, mVars, hVars, bVars, pVars, eVars, wVars, rVars, lVars, hcVars>>
notHandler == <<fVars, cVars, mVars, kVars, bVars, pVars, eVars, wVars, rVars, lVars, hcVars>>
notBalancer == <<fVars, cVars, mVars, kVars, hVars, pVars, eVars, wVars, rVars, lVars, hcVars>>
notHTTP == <<fVars, cVars, mVars, kVars, hVars, bVars, eVars, wVars, rVars, lVars, hcVars>>
notFormatter == <<fVars, cVars, mVars, kVars, hVars, bVars, pVars, wVars, rVars, lVars, hcVars>>
notMiddleware == <<fVars, cVars, mVars, kVars, hVars, bVars, pVars, eVars, rVars, lVars, hcVars>>
notRouter == <<fVars, cVars, mVars, kVars, hVars, bVars, pVars, eVars, wVars, lVars, hcVars>>
notLimiter == <<fVars, cVars, mVars, kVars, hVars, bVars, pVars, eVars, wVars, rVars, hcVars>>
notHealth == <<fVars, cVars, mVars, kVars, hVars, bVars, pVars, eVars, wVars, rVars, lVars>>

\* ------------------------------------------------------------- data model
\* errors are pairs <<name, origin>>; origin tells the backend or the worker
\* the error came from, 0 when the error has no origin
NilErr == <<"nil", 0>>
ErrNoBackends == <<"all endpoints must have at least one backend", 0>>
CtxErr == <<"context canceled", 0>>
BackendErr(i) == <<"backend error", i>>

\* URL patterns are sequences of tokens: literals and {Key} placeholders
Lit(s) == [t |-> "lit", v |-> s]
Key(k) == [t |-> "key", v |-> k]

\* config.Backend, with the fields the pipeline reads
Backend(cc, m, pat) ==
    [ConcurrentCalls |-> cc, Method |-> m, URLPattern |-> pat, Host |-> <<"http://h1", "http://h2">>]
Backends ==
    { Backend(cc, "GET", <<Lit("/x")>>) : cc \in 0..MaxConcurrentCalls } \cup
    { Backend(cc, "POST", <<Lit("/u/"), Key("Id")>>) : cc \in 0..MaxConcurrentCalls }

\* config.EndpointConfig
EndpointConfig(bs) == [Backend |-> bs]

\* ------------------------------------------------------------ proxy graph
\* A Proxy value is described by the middlewares it was composed of.
\* A single-backend stack lists its layers outermost first.
Layer(mw, backend) == [mw |-> mw, backend |-> backend]
NoProxy == [kind |-> "nil", layers |-> <<>>, next |-> <<>>]
StackProxy(layers) == [kind |-> "stack", layers |-> layers, next |-> <<>>]

\* pf.backendFactory(backend): the HTTP caller, innermost layer
BackendFactory(backend) == StackProxy(<<Layer("HTTPCaller", backend)>>)

\* a single-downstream middleware wraps the stack it is given
Wrap(mw, backend, p) == StackProxy(<<Layer(mw, backend)>> \o p.layers)

NewRoundRobinLoadBalancedMiddleware(backend, p) == Wrap("LoadBalance", backend, p)
NewConcurrentMiddleware(backend, p) == Wrap("Concurrent", backend, p)
NewRequestBuilderMiddleware(backend, p) == Wrap("RequestBuilder", backend, p)

\* NewMergeDataMiddleware(cfg)(backendProxy...)
NewMergeDataMiddleware(cfg, next) == [kind |-> "merge", layers |-> <<>>, next |-> next]

\* defaultFactory.newStack
newStack(backend) ==
    LET p1 == BackendFactory(backend)
        p2 == NewRoundRobinLoadBalancedMiddleware(backend, p1)
        p3 == IF backend.ConcurrentCalls > 1 THEN NewConcurrentMiddleware(backend, p2) ELSE p2
    IN  NewConcurrentMiddleware(backend, p3)

\* defaultFactory.newSingle
newSingle(cfg) == [p |-> newStack(cfg.Backend[1]), err |-> NilErr]

\* newMulti with a loop that stops one backend short
newMultiDropLast(cfg) ==
    LET backendProxy == [i \in 1..(Len(cfg.Backend) - 1) |-> newStack(cfg.Backend[i])]
    IN  [p |-> NewMergeDataMiddleware(cfg, backendProxy), err |-> NilErr]

\* defaultFactory.newMulti
newMulti(cfg) ==
    LET backendProxy == [i \in 1..Len(cfg.Backend) |-> newStack(cfg.Backend[i])]
    IN  [p |-> NewMergeDataMiddleware(cfg, backendProxy), err |-> NilErr]

\* New with the empty configuration falling through to the default case
NewNoEmptyCase(cfg) ==
    CASE Len(cfg.Backend) = 1 -> newSingle(cfg)
      [] OTHER -> newMulti(cfg)

\* defaultFactory.New
New(cfg) ==
    CASE Len(cfg.Backend) = 0 -> [p |-> NoProxy, err |-> ErrNoBackends]
      [] Len(cfg.Backend) = 1 -> newSingle(cfg)
      [] OTHER -> newMulti(cfg)

\* all sequences over S of length lo..hi
SeqsOf(S, lo, hi) == UNION { [1..n -> S] : n \in lo..hi }

Range(f) == { f[i] : i \in DOMAIN f }

\* ---------------------------------------------------------------- Request
\* proxy.Request: Method, Path, URL (empty until the load-balance layer
\* fills it) and Params (placeholder name -> value)
NoParams == [k \in {} |-> ""]
IdParams == [k \in {"Id"} |-> "7"]
InboundRequests ==
    { [Method |-> m, Path |-> <<"/in">>, URL |-> <<>>, Params |-> ps] :
        m \in {"GET", "DELETE"}, ps \in {NoParams, IdParams} }
NoRequest == [Method |-> "", Path |-> <<>>, URL |-> <<>>, Params |-> NoParams]

\* Request.GeneratePath: every {Key} of the pattern is replaced by the value
\* of the params map, a missing key by the empty string
GeneratePath(pattern, params) ==
    [i \in DOMAIN pattern |->
        IF pattern[i].t = "key"
        THEN IF pattern[i].v \in DOMAIN params THEN params[pattern[i].v] ELSE ""
        ELSE pattern[i].v]

\* the request the request-builder middleware forwards
RequestBuilderRequest(remote, request) ==
    [request EXCEPT !.Path = GeneratePath(remote.URLPattern, request.Params),
                    !.Method = remote.Method]

\* the offset taken from the incremented counter, without the decrement
RoundRobinHostNoDecrement(hosts, n) == hosts[(n % Len(hosts)) + 1]

\* roundRobinLB.Host: the host of the n-th call, n counted from 1
RoundRobinHost(hosts, n) == hosts[((n - 1) % Len(hosts)) + 1]

\* the request the load-balance middleware forwards
LoadBalanceRequest(host, request) == [request EXCEPT !.URL = <<host>> \o request.Path]

\* ------------------------------------------------- factory and stack call
CallIdle ==
    /\ cPc = "idle"
    /\ cLayers = <<>>
    /\ cPos = 0
    /\ cIn = NoRequest
    /\ cReq = NoRequest
    /\ cFan = 0
    /\ cLBHits = 0
    /\ cLBReq = NoRequest
    /\ cHTTPReq = NoRequest
    /\ cCounter = 0

FactoryIdle ==
    /\ fCfg = EndpointConfig(<<>>)
    /\ fPc = "idle"
    /\ fProxy = NoProxy
    /\ fErr = NilErr

FactoryStart ==
    /\ fCfg \in { EndpointConfig(bs) : bs \in SeqsOf(Backends, 0, MaxBackends) }
    /\ fPc = "init"
    /\ fProxy = NoProxy
    /\ fErr = NilErr

\* Factory.New(cfg)
FactoryNew ==
    /\ fPc = "init"
    /\ fPc' = "built"
    /\ fProxy' = New(fCfg).p
    /\ fErr' = New(fCfg).err
    /\ UNCHANGED <<fCfg, cVars>>
    /\ UNCHANGED notFactory

\* the single-backend stacks of a proxy graph: the proxy itself, or the
\* downstream proxies of the merge middleware
StacksOf(p) ==
    CASE p.kind = "stack" -> <<p>>
      [] p.kind = "merge" -> p.next
      [] OTHER -> <<>>

\* one invocation of a compiled stack with an inbound request (the merge
\* middleware invokes every downstream with a clone of the request)
CallStart ==
    /\ fPc = "built"
    /\ fErr = NilErr
    /\ cPc = "idle"
    /\ \E i \in DOMAIN StacksOf(fProxy), r \in InboundRequests :
        /\ cLayers' = StacksOf(fProxy)[i].layers
        /\ cIn' = r
        /\ cReq' = r
    /\ cPc' = "walking"
    /\ cPos' = 1
    /\ cFan' = 1
    /\ UNCHANGED <<fVars, cLBHits, cLBReq, cHTTPReq, cCounter>>
    /\ UNCHANGED notFactory

\* the call enters its next layer.
\*   RequestBuilder: forwards the rebuilt request;
\*   Concurrent: N workers, each invoking the downstream with a clone of
\*     the request, so the number of parallel copies is multiplied by N;
\*   LoadBalance: asks the balancer for a host and forwards the request
\*     with its URL; of the cFan parallel copies the one followed here is
\*     the first to ask;
\*   HTTPCaller: the innermost layer.
CallStep ==
    /\ cPc = "walking"
    /\ LET layer == cLayers[cPos]
           n == layer.backend.ConcurrentCalls
           workers == IF n > 0 THEN n ELSE 0
       IN  /\ cReq' = CASE layer.mw = "RequestBuilder" -> RequestBuilderRequest(layer.backend, cReq)
                        [] layer.mw = "LoadBalance" ->
                             LoadBalanceRequest(RoundRobinHost(layer.backend.Host, cCounter + 1), cReq)
                        [] OTHER -> cReq
           /\ cFan' = IF layer.mw = "Concurrent" THEN cFan * workers ELSE cFan
           /\ cLBHits' = IF layer.mw = "LoadBalance" THEN cLBHits + cFan ELSE cLBHits
           /\ cCounter' = IF layer.mw = "LoadBalance" THEN cCounter + cFan ELSE cCounter
           /\ cLBReq' = IF layer.mw = "LoadBalance" THEN cReq ELSE cLBReq
           /\ cHTTPReq' = IF layer.mw = "HTTPCaller" THEN cReq ELSE cHTTPReq
           /\ cPc' = IF layer.mw = "HTTPCaller" \/ (layer.mw = "Concurrent" /\ workers = 0)
                     THEN "done" ELSE "walking"
           /\ cPos' = IF layer.mw = "HTTPCaller" THEN cPos ELSE cPos + 1
    /\ UNCHANGED <<fVars, cLayers, cIn>>
    /\ UNCHANGED notFactory

\* ------------------------------------------------------- merge middleware
\* the key sets a backend's response object may have; the value a backend
\* stores under each of its keys is the backend's index
KeySets == { {}, {"a"}, {"b"} }
BackendData(i, keys) == [k \in keys |-> i]
EmptyData == [k \in {} |-> 0]

\* the backends of the merged endpoints
MergeBackend == Backend(1, "GET", <<Lit("/x")>>)

\* a result travelling from a worker to the collecting loop
Part(i, data) == [from |-> i, ok |-> TRUE, data |-> data, err |-> NilErr]
Failure(i, err) == [from |-> i, ok |-> FALSE, data |-> EmptyData, err |-> err]

\* copy the top-level keys of data into the accumulator; later arrivals
\* overwrite earlier ones
CombineData(acc, data) ==
    [k \in DOMAIN acc \cup DOMAIN data |-> IF k \in DOMAIN data THEN data[k] ELSE acc[k]]

NoReturn == [Data |-> EmptyData, IsComplete |-> FALSE, err |-> NilErr]

\* what Merge returns once all results are collected
MergeResult(acc, isComplete, lastErr, failed, total) ==
    IF failed = total
    THEN [Data |-> acc, IsComplete |-> FALSE, err |-> lastErr]
    ELSE [Data |-> acc, IsComplete |-> isComplete, err |-> NilErr]

\* MergePartial handing back the loop's flag and error as they stand
MergePartialAsIs(acc, isComplete, lastErr) ==
    [Data |-> acc, IsComplete |-> isComplete, err |-> lastErr]

\* what Merge returns when the caller's context fires mid-merge
MergePartial(acc, isComplete, lastErr) == [Data |-> acc, IsComplete |-> FALSE, err |-> NilErr]

MergeIdle ==
    /\ mCfg = EndpointConfig(<<>>)
    /\ mNext = <<>>
    /\ mKeys = <<>>
    /\ mPc = "off"
    /\ mWorker = <<>>
    /\ mOutcome = <<>>
    /\ mChan = <<>>
    /\ mOrder = <<>>
    /\ mAcc = EmptyData
    /\ mIsComplete = TRUE
    /\ mErr = NilErr
    /\ mFailed = 0
    /\ mCtxDone = FALSE
    /\ mRet = NoReturn

\* a multi-backend endpoint compiled by the factory
MergeStart ==
    /\ \E k \in 2..MaxBackends :
        /\ mCfg = EndpointConfig([i \in 1..k |-> MergeBackend])
        /\ mKeys \in [1..k -> KeySets]
        /\ mOutcome = [i \in 1..k |-> "none"]
    /\ mNext = New(mCfg).p.next
    /\ mPc = "idle"
    /\ mWorker = [i \in DOMAIN mNext |-> "idle"]
    /\ mChan = <<>>
    /\ mOrder = <<>>
    /\ mAcc = EmptyData
    /\ mIsComplete = TRUE
    /\ mErr = NilErr
    /\ mFailed = 0
    /\ mCtxDone = FALSE
    /\ mRet = NoReturn

\* the merged proxy is invoked: one goroutine per downstream proxy
MergeCall ==
    /\ mPc = "idle"
    /\ mPc' = "collecting"
    /\ mWorker' = [i \in DOMAIN mNext |-> "running"]
    /\ UNCHANGED <<mCfg, mNext, mKeys, mOutcome, mChan, mOrder, mAcc, mIsComplete,
                   mErr, mFailed, mCtxDone, mRet>>
    /\ UNCHANGED notMerge

\* the downstream proxy of backend i returns and its goroutine sends the
\* result on the channel (capacity K, so the send never blocks)
BackendReturn(i) ==
    /\ mWorker[i] = "running"
    /\ mWorker' = [mWorker EXCEPT ![i] = "sent"]
    /\ \E ok \in BOOLEAN :
        /\ mOutcome' = [mOutcome EXCEPT ![i] = IF ok THEN "ok" ELSE "fail"]
        /\ mChan' = Append(mChan, IF ok THEN Part(i, BackendData(i, mKeys[i]))
                                        ELSE Failure(i, BackendErr(i)))
    /\ UNCHANGED <<mCfg, mNext, mKeys, mPc, mOrder, mAcc, mIsComplete, mErr, mFailed,
                   mCtxDone, mRet>>
    /\ UNCHANGED notMerge

\* the caller's context is cancelled or its deadline expires
MergeCtxDone ==
    /\ mPc \in {"idle", "collecting"}
    /\ ~mCtxDone
    /\ mCtxDone' = TRUE
    /\ UNCHANGED <<mCfg, mNext, mKeys, mPc, mWorker, mOutcome, mChan, mOrder, mAcc,
                   mIsComplete, mErr, mFailed, mRet>>
    /\ UNCHANGED notMerge

\* the collecting loop takes one result from the channel; after the last
\* one Merge returns
MergeReceive ==
    /\ mPc = "collecting"
    /\ mChan # <<>>
    /\ LET msg == Head(mChan)
           acc == IF msg.ok THEN CombineData(mAcc, msg.data) ELSE mAcc
           isComplete == mIsComplete /\ msg.ok
           lastErr == IF msg.ok THEN mErr ELSE msg.err
           failed == IF msg.ok THEN mFailed ELSE mFailed + 1
           order == Append(mOrder, msg.from)
       IN  /\ mChan' = Tail(mChan)
           /\ mAcc' = acc
           /\ mIsComplete' = isComplete
           /\ mErr' = lastErr
           /\ mFailed' = failed
           /\ mOrder' = order
           /\ IF Len(order) = Len(mNext)
              THEN /\ mPc' = "done"
                   /\ mRet' = MergeResult(acc, isComplete, lastErr, failed, Len(mNext))
              ELSE UNCHANGED <<mPc, mRet>>
    /\ UNCHANGED <<mCfg, mNext, mKeys, mWorker, mOutcome, mCtxDone>>
    /\ UNCHANGED notMerge

\* the collecting loop sees the caller's context fire before the last
\* result: Merge returns what it has
MergeCtxFired ==
    /\ mPc = "collecting"
    /\ mCtxDone
    /\ mPc' = "cancelled"
    /\ mRet' = MergePartial(mAcc, mIsComplete, mErr)
    /\ UNCHANGED <<mCfg, mNext, mKeys, mWorker, mOutcome, mChan, mOrder, mAcc,
                   mIsComplete, mErr, mFailed, mCtxDone>>
    /\ UNCHANGED notMerge

\* -------------------------------------------------- concurrent middleware
\* a response is named after the worker that produced it; 0 is no response
NoResponse == 0
Tuple(i, ok) ==
    [from |-> i, ok |-> ok, resp |-> IF ok THEN i ELSE NoResponse,
     err |-> IF ok THEN NilErr ELSE BackendErr(i)]

NoResult == [resp |-> NoResponse, err |-> NilErr]

\* ConcurrentSuccess returning the error variable along with the response
ConcurrentSuccessWithErr(msg, lastErr) == [resp |-> msg.resp, err |-> lastErr]

\* what the middleware returns on the first successful tuple
ConcurrentSuccess(msg, lastErr) == [resp |-> msg.resp, err |-> NilErr]

\* ConcurrentAllFailed returning the first observed error
ConcurrentAllFailedFirst(seen, lastErr) ==
    [resp |-> NoResponse, err |-> IF seen = <<>> THEN lastErr ELSE seen[1].err]

\* what the middleware returns once all N workers have failed
ConcurrentAllFailed(seen, lastErr) == [resp |-> NoResponse, err |-> lastErr]

\* ConcurrentCancelled returning the last observed worker error
ConcurrentCancelledLastErr(lastErr) == [resp |-> NoResponse, err |-> lastErr]

\* what the middleware returns when the caller's context is cancelled
ConcurrentCancelled(lastErr) == [resp |-> NoResponse, err |-> CtxErr]

\* the number of workers of a concurrent layer
ConcurrentWorkers(layer) == IF layer.backend.ConcurrentCalls > 0 THEN layer.backend.ConcurrentCalls ELSE 0

\* a result channel that holds a single tuple
ChannelCapacityOne(layer) == 1

\* the capacity of the result channel: one slot per worker
ChannelCapacity(layer) == ConcurrentWorkers(layer)

ConcurrentIdle ==
    /\ kLayer = Layer("none", Backend(0, "", <<>>))
    /\ kPc = "off"
    /\ kWorker = <<>>
    /\ kOutcome = <<>>
    /\ kChan = <<>>
    /\ kSeen = <<>>
    /\ kErr = NilErr
    /\ kCtxDone = FALSE
    /\ kChildDone = FALSE
    /\ kRet = NoResult

\* the outermost layer of a stack the factory compiled
ConcurrentStart ==
    /\ \E cc \in 0..MaxConcurrentCalls :
        kLayer = Head(newStack(Backend(cc, "GET", <<Lit("/x")>>)).layers)
    /\ kLayer.mw = "Concurrent"
    /\ kPc = "idle"
    /\ kWorker = [i \in 1..ConcurrentWorkers(kLayer) |-> "idle"]
    /\ kOutcome = [i \in 1..ConcurrentWorkers(kLayer) |-> "none"]
    /\ kChan = <<>>
    /\ kSeen = <<>>
    /\ kErr = NilErr
    /\ kCtxDone = FALSE
    /\ kChildDone = FALSE
    /\ kRet = NoResult

\* the middleware is invoked: it derives the child context and launches
\* the N workers; with no worker to wait for it returns at once
ConcurrentCall ==
    /\ kPc = "idle"
    /\ kWorker' = [i \in DOMAIN kWorker |-> "running"]
    /\ IF ConcurrentWorkers(kLayer) = 0
       THEN /\ kPc' = "returned"
            /\ kRet' = ConcurrentAllFailed(kSeen, kErr)
       ELSE /\ kPc' = "collecting"
            /\ kRet' = kRet
    /\ UNCHANGED <<kLayer, kOutcome, kChan, kSeen, kErr, kCtxDone, kChildDone>>
    /\ UNCHANGED notConcurrent

\* worker i gets the result of its downstream call and sends the tuple;
\* the send blocks while the channel is full
WorkerReturn(i) ==
    /\ kWorker[i] = "running"
    /\ Len(kChan) < ChannelCapacity(kLayer)
    /\ kWorker' = [kWorker EXCEPT ![i] = "sent"]
    /\ \E ok \in BOOLEAN :
        /\ kOutcome' = [kOutcome EXCEPT ![i] = IF ok THEN "ok" ELSE "fail"]
        /\ kChan' = Append(kChan, Tuple(i, ok))
    /\ UNCHANGED <<kLayer, kPc, kSeen, kErr, kCtxDone, kChildDone, kRet>>
    /\ UNCHANGED notConcurrent

\* the caller's context is cancelled
ConcurrentCtxDone ==
    /\ kPc \in {"idle", "collecting"}
    /\ ~kCtxDone
    /\ kCtxDone' = TRUE
    /\ UNCHANGED <<kLayer, kPc, kWorker, kOutcome, kChan, kSeen, kErr, kChildDone, kRet>>
    /\ UNCHANGED notConcurrent

\* the middleware takes one tuple from the channel: a success is returned
\* at once and the child context cancelled; a failure is remembered, and
\* returned when it is the N-th
ConcurrentReceive ==
    /\ kPc = "collecting"
    /\ kChan # <<>>
    /\ LET msg == Head(kChan)
           seen == Append(kSeen, msg)
           lastErr == IF msg.ok THEN kErr ELSE msg.err
       IN  /\ kChan' = Tail(kChan)
           /\ kSeen' = seen
           /\ kErr' = lastErr
           /\ IF msg.ok
              THEN /\ kPc' = "returned"
                   /\ kChildDone' = TRUE
                   /\ kRet' = ConcurrentSuccess(msg, kErr)
              ELSE IF Len(seen) = ConcurrentWorkers(kLayer)
              THEN /\ kPc' = "returned"
                   /\ kChildDone' = kChildDone
                   /\ kRet' = ConcurrentAllFailed(seen, lastErr)
              ELSE UNCHANGED <<kPc, kChildDone, kRet>>
    /\ UNCHANGED <<kLayer, kWorker, kOutcome, kCtxDone>>
    /\ UNCHANGED notConcurrent

\* the middleware sees the caller's context cancelled before a success
ConcurrentCtxFired ==
    /\ kPc = "collecting"
    /\ kCtxDone
    /\ kPc' = "cancelled"
    /\ kRet' = ConcurrentCancelled(kErr)
    /\ UNCHANGED <<kLayer, kWorker, kOutcome, kChan, kSeen, kErr, kCtxDone, kChildDone>>
    /\ UNCHANGED notConcurrent

\* -------------------------------------------------------- endpoint handler
\* time.Duration counts nanoseconds
Millisecond == 1000000
Second == 1000000000

\* Duration.Seconds() is non-zero exactly when the duration is, and
\* int(Duration.Seconds()) truncates towards zero
WholeSeconds(d) == IF d >= 0 THEN d \div Second ELSE -((-d) \div Second)

\* the endpoint configurations: Timeout counts milliseconds, CacheTTL is a
\* Duration; the configuration is not validated, so a TTL may be negative
\* or shorter than a second
CacheTTLs == { -Second, 0, Second \div 2, 2 * Second }
HandlerConfigs ==
    [Method : {"GET", "POST"}, Timeout : 0..MaxTimeout, CacheTTL : CacheTTLs]

\* a value encoding/json has no encoding for (a channel, a function)
Chan == -1

\* proxy.Response as the handler reads it; a nil *Response is NilResponse
Response(data, complete) == [Nil |-> FALSE, Data |-> data, IsComplete |-> complete]
NilResponse == [Nil |-> TRUE, Data |-> EmptyData, IsComplete |-> FALSE]
HandlerData == { EmptyData, BackendData(1, {"a"}), BackendData(Chan, {"f"}) }
HandlerResponses ==
    {NilResponse} \cup { Response(d, c) : d \in HandlerData, c \in BOOLEAN }

DeadlineErr == <<"context deadline exceeded", 0>>
ErrInternalError == <<"internal server error", 0>>
UnsupportedTypeErr == <<"json: unsupported type", 0>>

\* error.Error()
Error(err) == err[1]

\* json.Marshal of a map: the object's members, or an error
Marshal(data) == [object |-> { <<k, data[k]>> : k \in DOMAIN data }]
MarshalErr(data) ==
    IF \E k \in DOMAIN data : data[k] = Chan THEN UnsupportedTypeErr ELSE NilErr

\* a chunk of plain text written to the body
Text(s) == [text |-> s]

\* the Cache-Control header
NoHeader == [set |-> FALSE, public |-> FALSE, maxAge |-> 0]
MaxAge(public, seconds) == [set |-> TRUE, public |-> public, maxAge |-> seconds]

NoDeadline == -1
NoStatus == 0
StatusOK == 200
StatusMethodNotAllowed == 405
StatusInternalServerError == 500

\* what one run of a handler leaves behind once the proxy has returned
Outcome(status, body, cache, cancels, errors) ==
    [status |-> status, body |-> body, cache |-> cache, cancels |-> cancels,
     errors |-> errors]

\* the configured count taken as a Duration without the unit
endpointTimeoutNanos(cfg) == cfg.Timeout

\* time.Duration(cfg.Timeout) * time.Millisecond
endpointTimeout(cfg) == cfg.Timeout * Millisecond

\* context.WithTimeout(parent, d) at instant now: neither context.Background
\* nor the gin context carries a deadline of its own
WithTimeout(now, d) == now + d

\* <-ctx.Done() is ready
Done(deadline, now) == now >= deadline

\* the parent the handlers derive their context from: the mux handlers
\* pass context.Background(), the gin handler its *gin.Context
Parent(kind) == IF kind = "gin" THEN "gin.Context" ELSE "Background"

\* <-parent.Done() is ready: Background is never done; Done() of a
\* gin.Context is a nil channel unless the engine is told to fall back to
\* the request's context, which no router here does
ParentDone(parent, inboundDone) ==
    CASE parent = "Request.Context" -> inboundDone
      [] OTHER -> FALSE

\* <-requestCtx.Done() is ready, for the context derived from parent
CtxDone(parent, inboundDone, deadline, now) ==
    ParentDone(parent, inboundDone) \/ Done(deadline, now)

\* a handler without the method check
MethodAllowedAlways(kind, method, cfg) == TRUE

\* the mux handlers compare the methods themselves; gin registers the
\* handler under the endpoint's method only
MethodAllowed(kind, method, cfg) == kind = "gin" \/ method = cfg.Method

\* the value of the Cache-Control header: router.go leaves "public" out
CacheControl(kind, cfg) ==
    MaxAge(kind # "mux", WholeSeconds(cfg.CacheTTL))

\* a mux handler whose marshalling-error path returns without cancel()
MuxRespondLeaky(kind, cfg, resp, err, done) ==
    IF err # NilErr
    THEN Outcome(StatusInternalServerError, <<Text(Error(err))>>, NoHeader, 1, <<>>)
    ELSE IF done
    THEN Outcome(StatusInternalServerError, <<Text(Error(ErrInternalError))>>, NoHeader, 1, <<>>)
    ELSE IF ~resp.Nil /\ MarshalErr(resp.Data) # NilErr
    THEN Outcome(StatusInternalServerError, <<Text(Error(MarshalErr(resp.Data)))>>,
                 NoHeader, 0, <<>>)
    ELSE Outcome(StatusOK,
                 IF resp.Nil THEN <<>> ELSE <<Marshal(resp.Data)>>,
                 IF ~resp.Nil /\ cfg.CacheTTL # 0 /\ resp.IsComplete
                 THEN CacheControl(kind, cfg) ELSE NoHeader,
                 1, <<>>)

\* CustomEndpointHandler and the older mux EndpointHandler, from the return
\* of the proxy on
MuxRespond(kind, cfg, resp, err, done) ==
    IF err # NilErr
    THEN Outcome(StatusInternalServerError, <<Text(Error(err))>>, NoHeader, 1, <<>>)
    ELSE IF done
    THEN Outcome(StatusInternalServerError, <<Text(Error(ErrInternalError))>>, NoHeader, 1, <<>>)
    ELSE IF ~resp.Nil /\ MarshalErr(resp.Data) # NilErr
    THEN Outcome(StatusInternalServerError, <<Text(Error(MarshalErr(resp.Data)))>>,
                 NoHeader, 1, <<>>)
    ELSE Outcome(StatusOK,
                 IF resp.Nil THEN <<>> ELSE <<Marshal(resp.Data)>>,
                 IF ~resp.Nil /\ cfg.CacheTTL # 0 /\ resp.IsComplete
                 THEN CacheControl(kind, cfg) ELSE NoHeader,
                 1, <<>>)

\* c.JSON(code, obj): the status is the one already on the wire if the
\* request was aborted; an object that cannot be encoded is recorded as an
\* error of the context and nothing is written
GinJSON(aborted, obj) ==
    [status |-> IF aborted THEN StatusInternalServerError ELSE StatusOK,
     body |-> IF MarshalErr(obj) = NilErr THEN <<Marshal(obj)>> ELSE <<>>,
     errors |-> IF MarshalErr(obj) = NilErr THEN <<>> ELSE <<MarshalErr(obj)>>]

\* the gin EndpointHandler, from the return of the proxy on: the branch of
\* a done context aborts with 500 and then falls through to the writes
GinRespond(kind, cfg, resp, err, done) ==
    IF err # NilErr
    THEN Outcome(StatusInternalServerError, <<>>, NoHeader, 1, <<err>>)
    ELSE LET aborted == IF done THEN <<ErrInternalError>> ELSE <<>>
             cached == cfg.CacheTTL # 0 /\ ~resp.Nil /\ resp.IsComplete
             written == GinJSON(done, IF cached THEN resp.Data ELSE EmptyData)
         IN  Outcome(written.status, written.body,
                     IF cached THEN CacheControl(kind, cfg) ELSE NoHeader,
                     Len(aborted) + 1, aborted \o written.errors)

Respond(kind, cfg, resp, err, done) ==
    IF kind = "gin" THEN GinRespond(kind, cfg, resp, err, done)
    ELSE MuxRespond(kind, cfg, resp, err, done)

\* what the compiled proxy may return: a backend that answers yields any
\* response and error; one that never answers holds the proxy until the
\* context is done, and then the HTTP caller yields ctx.Err() and a merge
\* yields what it has, incomplete
ProxyResults(backend, done) ==
    IF backend = "responds"
    THEN { <<r, e>> : r \in HandlerResponses, e \in {NilErr, BackendErr(1)} }
    ELSE IF done
    THEN { <<NilResponse, DeadlineErr>>, <<Response(EmptyData, FALSE), NilErr>> }
    ELSE {}

HandlerIdle ==
    /\ hKind = "mux"
    /\ hCfg = [Method |-> "GET", Timeout |-> 0, CacheTTL |-> 0]
    /\ hMethod = "GET"
    /\ hBackend = "responds"
    /\ hPc = "idle"
    /\ hNow = 0
    /\ hStart = 0
    /\ hDeadline = NoDeadline
    /\ hProxyCtx = NoDeadline
    /\ hProxyCalls = 0
    /\ hResp = NilResponse
    /\ hErr = NilErr
    /\ hSawDone = FALSE
    /\ hCancels = 0
    /\ hStatus = NoStatus
    /\ hBody = <<>>
    /\ hCacheControl = NoHeader
    /\ hErrors = <<>>
    /\ hInboundDone = FALSE

\* a request arrives at an endpoint's handler
HandlerStart ==
    /\ hKind \in {"mux", "muxOld", "gin"}
    /\ hCfg \in HandlerConfigs
    /\ hMethod \in {"GET", "POST"}
    /\ hKind = "gin" => hMethod = hCfg.Method
    /\ hBackend \in {"responds", "never"}
    /\ hPc = "accepted"
    /\ hNow = 0
    /\ hStart = 0
    /\ hDeadline = NoDeadline
    /\ hProxyCtx = NoDeadline
    /\ hProxyCalls = 0
    /\ hResp = NilResponse
    /\ hErr = NilErr
    /\ hSawDone = FALSE
    /\ hCancels = 0
    /\ hStatus = NoStatus
    /\ hBody = <<>>
    /\ hCacheControl = NoHeader
    /\ hErrors = <<>>
    /\ hInboundDone = FALSE

\* time passes
Tick ==
    /\ hPc \in {"accepted", "proxy", "check"}
    /\ hNow < MaxTime * Millisecond
    /\ hNow' = hNow + Millisecond
    /\ UNCHANGED <<hKind, hCfg, hMethod, hBackend, hPc, hStart, hDeadline, hProxyCtx,
                   hProxyCalls, hResp, hErr, hSawDone, hCancels, hStatus, hBody,
                   hCacheControl, hErrors>>
    /\ UNCHANGED hInboundDone
    /\ UNCHANGED notHandler

\* the client goes away while its request is being served: the inbound
\* request's context is cancelled
ClientDisconnect ==
    /\ hPc \in {"accepted", "proxy"}
    /\ ~hInboundDone
    /\ hInboundDone' = TRUE
    /\ UNCHANGED <<hKind, hCfg, hMethod, hBackend, hPc, hNow, hStart, hDeadline, hProxyCtx,
                   hProxyCalls, hResp, hErr, hSawDone, hCancels, hStatus, hBody,
                   hCacheControl, hErrors>>
    /\ UNCHANGED notHandler

\* the handler up to the invocation of the proxy: the method check, the
\* derived context, the call
HandlerEnter ==
    /\ hPc = "accepted"
    /\ IF MethodAllowed(hKind, hMethod, hCfg)
       THEN /\ hStart' = hNow
            /\ hDeadline' = WithTimeout(hNow, endpointTimeout(hCfg))
            /\ hProxyCtx' = hDeadline'
            /\ hProxyCalls' = hProxyCalls + 1
            /\ hPc' = "proxy"
            /\ UNCHANGED <<hStatus, hBody>>
       ELSE /\ hStatus' = StatusMethodNotAllowed
            /\ hBody' = <<Text("")>>
            /\ hPc' = "returned"
            /\ UNCHANGED <<hStart, hDeadline, hProxyCtx, hProxyCalls>>
    /\ UNCHANGED <<hKind, hCfg, hMethod, hBackend, hNow, hResp, hErr, hSawDone,
                   hCancels, hCacheControl, hErrors>>
    /\ UNCHANGED hInboundDone
    /\ UNCHANGED notHandler

\* the proxy returns to the handler
ProxyReturn ==
    /\ hPc = "proxy"
    /\ \E res \in ProxyResults(hBackend, CtxDone(Parent(hKind), hInboundDone, hProxyCtx, hNow)) :
          /\ hResp' = res[1]
          /\ hErr' = res[2]
    /\ hPc' = "check"
    /\ UNCHANGED <<hKind, hCfg, hMethod, hBackend, hNow, hStart, hDeadline, hProxyCtx,
                   hProxyCalls, hSawDone, hCancels, hStatus, hBody, hCacheControl,
                   hErrors>>
    /\ UNCHANGED hInboundDone
    /\ UNCHANGED notHandler

\* the handler from the return of the proxy to its own return
HandlerFinish ==
    /\ hPc = "check"
    /\ LET done == CtxDone(Parent(hKind), hInboundDone, hDeadline, hNow)
           out == Respond(hKind, hCfg, hResp, hErr, done)
       IN  /\ hSawDone' = (hErr = NilErr /\ done)
           /\ hStatus' = out.status
           /\ hBody' = out.body
           /\ hCacheControl' = out.cache
           /\ hCancels' = hCancels + out.cancels
           /\ hErrors' = out.errors
    /\ hPc' = "returned"
    /\ UNCHANGED <<hKind, hCfg, hMethod, hBackend, hNow, hStart, hDeadline, hProxyCtx,
                   hProxyCalls, hResp, hErr>>
    /\ UNCHANGED hInboundDone
    /\ UNCHANGED notHandler

\* ------------------------------------------------------------ load balancer
AllHosts == [i \in 1..MaxHosts |-> <<"http://h", i>>]
HostLists == { SubSeq(AllHosts, 1, n) : n \in 0..MaxHosts }
Goroutines == 1..MaxGoroutines

ErrNoHosts == <<"no hosts available", 0>>
SubscriberErr == <<"subscriber error", 0>>

\* the empty string Host() returns next to an error
NoHost == <<"", 0>>

\* what subscriber.Hosts() may return: a FixedSubscriber returns its list;
\* any other subscriber may also fail or find no host
Hosts(subscriber, hosts) ==
    IF subscriber = "fixed"
    THEN { [hosts |-> hosts, err |-> NilErr] }
    ELSE { [hosts |-> hosts, err |-> NilErr],
           [hosts |-> <<>>, err |-> NilErr],
           [hosts |-> <<>>, err |-> SubscriberErr] }

\* a result of Host()
HostResult(host, err, from) == [returned |-> TRUE, host |-> host, err |-> err, from |-> from]
NoHostResult ==
    [returned |-> FALSE, host |-> NoHost, err |-> NilErr,
     from |-> [hosts |-> <<>>, err |-> NilErr]]

\* the guards of Host() with a subscriber error reported as ErrNoHosts
GuardErrNoHostsOnly(res) ==
    IF res.err # NilErr \/ Len(res.hosts) <= 0
    THEN HostResult(NoHost, ErrNoHosts, res)
    ELSE NoHostResult

\* the two guards at the top of roundRobinLB.Host and randomLB.Host: the
\* early return, or NoHostResult when the call goes on
Guard(res) ==
    IF res.err # NilErr THEN HostResult(NoHost, res.err, res)
    ELSE IF Len(res.hosts) <= 0 THEN HostResult(NoHost, ErrNoHosts, res)
    ELSE NoHostResult

\* an add that loses the increment
AddUint64Lost(counter, delta) == counter

\* atomic.AddUint64; the counter stays far below 2^64 within the bounds
AddUint64(counter, delta) == counter + delta

\* a Host() that counts the call before its guards
CounterAfterAlways(counter, failed) == AddUint64(counter, 1)

\* roundRobinLB.counter after a Host() call: the add comes after the two
\* guards, so only a call that got past them counts
CounterAfter(counter, failed) == IF failed THEN counter ELSE AddUint64(counter, 1)

\* rnd.Intn(n): any of 0..n-1
Intn(n) == 0..(n - 1)

\* rnd.Intn(n) while another goroutine is inside the same rand.Rand: the
\* source's indices are read and written without synchronisation, so the
\* call yields some number below n or panics with an index out of range
IntnPanic == -1
IntnRacing(n) == Intn(n) \cup {IntnPanic}

BalancerIdle ==
    /\ bKind = "roundRobin"
    /\ bSubscriber = "fixed"
    /\ bHosts = <<>>
    /\ bCounter = 0
    /\ bPc = [g \in Goroutines |-> "idle"]
    /\ bLocal = [g \in Goroutines |-> NoHostResult.from]
    /\ bRet = [g \in Goroutines |-> NoHostResult]
    /\ bIssued = 0
    /\ bPicked = 0
    /\ bLast = NoHost
    /\ bCount = [i \in 1..MaxHosts |-> 0]
    /\ bRnd = {}

\* NewRoundRobinLB / NewRandomLB over a subscriber
BalancerStart ==
    /\ bKind \in {"roundRobin", "random"}
    /\ bSubscriber \in {"fixed", "flaky"}
    /\ bHosts \in HostLists
    /\ bCounter = 0
    /\ bPc = [g \in Goroutines |-> "idle"]
    /\ bLocal = [g \in Goroutines |-> NoHostResult.from]
    /\ bRet = [g \in Goroutines |-> NoHostResult]
    /\ bIssued = 0
    /\ bPicked = 0
    /\ bLast = NoHost
    /\ bCount = [i \in 1..MaxHosts |-> 0]
    /\ bRnd = {}

\* goroutine g calls Host(): subscriber.Hosts() and the two guards
BalancerHosts(g) ==
    /\ bPc[g] = "idle"
    /\ bIssued < MaxCalls
    /\ bIssued' = bIssued + 1
    /\ \E res \in Hosts(bSubscriber, bHosts) :
          IF Guard(res).returned
          THEN /\ bRet' = [bRet EXCEPT ![g] = Guard(res)]
               /\ bCounter' = IF bKind = "roundRobin" THEN CounterAfter(bCounter, TRUE)
                              ELSE bCounter
               /\ UNCHANGED <<bPc, bLocal>>
          ELSE /\ bLocal' = [bLocal EXCEPT ![g] = res]
               /\ bPc' = [bPc EXCEPT ![g] = "pick"]
               /\ UNCHANGED <<bRet, bCounter>>
    /\ UNCHANGED <<bKind, bSubscriber, bHosts, bPicked, bLast, bCount, bRnd>>
    /\ UNCHANGED notBalancer

\* goroutine g of a random balancer enters r.rnd.Intn: the balancer's
\* one rand.Rand, with no lock around it
BalancerIntn(g) ==
    /\ bKind = "random"
    /\ bPc[g] = "pick"
    /\ bPc' = [bPc EXCEPT ![g] = "intn"]
    /\ bRnd' = bRnd \cup {g}
    /\ UNCHANGED <<bKind, bSubscriber, bHosts, bCounter, bLocal, bRet, bIssued, bPicked,
                   bLast, bCount>>
    /\ UNCHANGED notBalancer

\* goroutine g picks its host and returns; a round-robin pick is the one
\* atomic add, a random pick ends the Intn call, which may have panicked
\* if another goroutine was inside the same source
BalancerPick(g) ==
    /\ bPc[g] = IF bKind = "roundRobin" THEN "pick" ELSE "intn"
    /\ LET hosts == bLocal[g].hosts IN
       \E r \in IF bKind = "roundRobin" THEN {0}
                ELSE IF bRnd # {g} THEN IntnRacing(Len(hosts))
                ELSE Intn(Len(hosts)) :
          IF r = IntnPanic
          THEN /\ bPc' = [bPc EXCEPT ![g] = "panicked"]
               /\ UNCHANGED <<bCounter, bRet, bLast, bCount, bPicked>>
          ELSE LET counter == IF bKind = "roundRobin" THEN CounterAfter(bCounter, FALSE) ELSE bCounter
                   host == IF bKind = "roundRobin" THEN RoundRobinHost(hosts, counter)
                           ELSE hosts[r + 1]
               IN  /\ bCounter' = counter
                   /\ bRet' = [bRet EXCEPT ![g] = HostResult(host, NilErr, bLocal[g])]
                   /\ bLast' = host
                   /\ bCount' = IF bKind = "roundRobin"
                                THEN [bCount EXCEPT ![host[2]] = @ + 1]
                                ELSE bCount
                   /\ bPicked' = bPicked + 1
                   /\ bPc' = [bPc EXCEPT ![g] = "idle"]
    /\ bRnd' = bRnd \ {g}
    /\ bLocal' = [bLocal EXCEPT ![g] = NoHostResult.from]
    /\ UNCHANGED <<bKind, bSubscriber, bHosts, bIssued>>
    /\ UNCHANGED notBalancer

\* -------------------------------------------------------------- HTTP caller
StatusCreated == 201
\* the status codes a backend answers with
StatusCodes == { StatusOK, StatusCreated, 204, 301, 404, StatusInternalServerError, 503 }

ErrInvalidStatusCode == <<"Invalid status code", 0>>
URLErr == <<"net/http: invalid request", 0>>
TransportErr == <<"transport error", 0>>
DecodeErr == <<"invalid character", 0>>

\* the status check of the older copy of the caller
ValidStatusCreatedOnly(code) == code = StatusCreated

\* the status codes the caller goes on to decode
ValidStatus(code) == code = StatusOK \/ code = StatusCreated

\* the backend's bodies, and what the decoder makes of them
Bodies == {"object", "empty", "malformed"}
Decodable(body) == body # "malformed"
DecodedData(body) == IF body = "object" THEN BackendData(1, {"a"}) ELSE EmptyData

\* what the caller returns
HTTPResult(resp, err) == [resp |-> resp, err |-> err]
NoHTTPResult == HTTPResult(NilResponse, NilErr)

\* a caller that looks at the exchange's error before the context
AfterDoErrFirst(ctxDone, exchange, code, body) ==
    IF exchange = "error"
    THEN [ret |-> HTTPResult(NilResponse, TransportErr), closed |-> FALSE, decoded |-> FALSE]
    ELSE IF ctxDone
    THEN [ret |-> HTTPResult(NilResponse, CtxErr), closed |-> FALSE, decoded |-> FALSE]
    ELSE IF ~ValidStatus(code)
    THEN [ret |-> HTTPResult(NilResponse, ErrInvalidStatusCode),
          closed |-> FALSE, decoded |-> FALSE]
    ELSE IF ~Decodable(body)
    THEN [ret |-> HTTPResult(NilResponse, DecodeErr),
          closed |-> TRUE, decoded |-> TRUE]
    ELSE [ret |-> HTTPResult(Response(DecodedData(body), TRUE), NilErr),
          closed |-> TRUE, decoded |-> TRUE]

\* the caller after client.Do returned: the ctx.Done() check, the error
\* check, the status check, decoding; closed is whether resp.Body.Close()
\* ran, decoded whether the decoder ran
AfterDo(ctxDone, exchange, code, body) ==
    IF ctxDone
    THEN [ret |-> HTTPResult(NilResponse, CtxErr), closed |-> FALSE, decoded |-> FALSE]
    ELSE IF exchange = "error"
    THEN [ret |-> HTTPResult(NilResponse, TransportErr), closed |-> FALSE, decoded |-> FALSE]
    ELSE IF ~ValidStatus(code)
    THEN [ret |-> HTTPResult(NilResponse, ErrInvalidStatusCode),
          closed |-> FALSE, decoded |-> FALSE]
    ELSE IF ~Decodable(body)
    THEN [ret |-> HTTPResult(NilResponse, DecodeErr),
          closed |-> TRUE, decoded |-> TRUE]
    ELSE [ret |-> HTTPResult(Response(DecodedData(body), TRUE), NilErr),
          closed |-> TRUE, decoded |-> TRUE]

HTTPIdle ==
    /\ pPc = "idle"
    /\ pURLOk = TRUE
    /\ pBody = "object"
    /\ pCtxDone = FALSE
    /\ pExchange = "none"
    /\ pStatusCode = NoStatus
    /\ pReqBodyClosed = FALSE
    /\ pBodyClosed = FALSE
    /\ pDecoded = FALSE
    /\ pRet = NoHTTPResult

\* the proxy built by NewHttpProxy is invoked
HTTPStart ==
    /\ pPc = "start"
    /\ pURLOk \in BOOLEAN
    /\ pBody \in Bodies
    /\ pCtxDone \in BOOLEAN
    /\ pExchange = "none"
    /\ pStatusCode = NoStatus
    /\ pReqBodyClosed = FALSE
    /\ pBodyClosed = FALSE
    /\ pDecoded = FALSE
    /\ pRet = NoHTTPResult

\* the call's context is cancelled or times out
HTTPCtxDone ==
    /\ pPc \in {"start", "sent", "select"}
    /\ ~pCtxDone
    /\ pCtxDone' = TRUE
    /\ UNCHANGED <<pPc, pURLOk, pBody, pExchange, pStatusCode, pReqBodyClosed,
                   pBodyClosed, pDecoded, pRet>>
    /\ UNCHANGED notHTTP

\* http.NewRequest and client.Do: the exchange ends with a response or
\* with an error; under a done context Do fails unless the response had
\* already arrived
HTTPDo ==
    /\ pPc = "start"
    /\ IF ~pURLOk
       THEN /\ pRet' = HTTPResult(NilResponse, URLErr)
            /\ pPc' = "returned"
            /\ UNCHANGED <<pExchange, pStatusCode>>
       ELSE /\ \/ /\ pExchange' = "error"
                  /\ UNCHANGED pStatusCode
               \/ /\ pExchange' = "response"
                  /\ pStatusCode' \in StatusCodes
            /\ pPc' = "sent"
            /\ UNCHANGED pRet
    /\ UNCHANGED <<pURLOk, pBody, pCtxDone, pReqBodyClosed, pBodyClosed, pDecoded>>
    /\ UNCHANGED notHTTP

\* requestToBackend.Body.Close()
HTTPCloseRequestBody ==
    /\ pPc = "sent"
    /\ pReqBodyClosed' = TRUE
    /\ pPc' = "select"
    /\ UNCHANGED <<pURLOk, pBody, pCtxDone, pExchange, pStatusCode, pBodyClosed,
                   pDecoded, pRet>>
    /\ UNCHANGED notHTTP

\* the rest of the caller, from the select on ctx.Done() to its return
HTTPFinish ==
    /\ pPc = "select"
    /\ LET out == AfterDo(pCtxDone, pExchange, pStatusCode, pBody)
       IN  /\ pRet' = out.ret
           /\ pBodyClosed' = out.closed
           /\ pDecoded' = out.decoded
    /\ pPc' = "returned"
    /\ UNCHANGED <<pURLOk, pBody, pCtxDone, pExchange, pStatusCode, pReqBodyClosed>>
    /\ UNCHANGED notHTTP

\* --------------------------------------------------------- entity formatter
\* a decoded JSON value: a number or an object (key -> value)
Num(n) == [kind |-> "num", n |-> n]
Obj(o) == [kind |-> "obj", o |-> o]

\* maps: set and delete a key
Put(m, k, v) == [j \in DOMAIN m \cup {k} |-> IF j = k THEN v ELSE m[j]]
Delete(m, ks) == [j \in DOMAIN m \ ks |-> m[j]]

\* the decoded objects: keys a and b, each a number or an object with
\* children among x and y; {a: {x: 1, y: 2}, b: 3} is one of them
SubObjects == { [k \in S |-> Num(IF k = "x" THEN 1 ELSE 2)] : S \in SUBSET {"x", "y"} }
Values == {Num(3)} \cup { Obj(o) : o \in SubObjects }
Entities == UNION { [S -> Values] : S \in SUBSET {"a", "b"} }

\* a whitelist or blacklist entry is a string, here a sequence of tokens:
\* key names separated by Dot
Dot == "."
PathStrings == { <<"a">>, <<"b">>, <<"a", Dot, "x">>, <<"a", Dot, "y">> }

\* the text between two separators: a key name, or the empty string
Segment(t) == IF t = <<>> THEN "" ELSE t[1]

\* strings.Split(s, ".")
RECURSIVE Split(_)
Split(s) ==
    IF \E i \in DOMAIN s : s[i] = Dot
    THEN LET i == CHOOSE i \in DOMAIN s : s[i] = Dot /\ \A j \in 1..(i - 1) : s[j] # Dot
         IN  <<Segment(SubSeq(s, 1, i - 1))>> \o Split(SubSeq(s, i + 1, Len(s)))
    ELSE <<Segment(s)>>

\* one round of the loop that builds wl, the map from a top-level key to
\* the set of its listed children (empty: the whole key is listed)
WhitelistEntry(wl, k) ==
    LET keys == Split(k)
        subs == { keys[i] : i \in 2..Len(keys) }
    IN  IF Len(keys) > 1
        THEN IF keys[1] \in DOMAIN wl
             THEN Put(wl, keys[1], wl[keys[1]] \cup subs)
             ELSE Put(wl, keys[1], subs)
        ELSE Put(wl, keys[1], {})

\* wl after the whole whitelist, entries taken in order
RECURSIVE WhitelistMap(_)
WhitelistMap(whitelist) ==
    IF whitelist = <<>> THEN EmptyData
    ELSE WhitelistEntry(WhitelistMap(SubSeq(whitelist, 1, Len(whitelist) - 1)),
                        whitelist[Len(whitelist)])

\* a sub-filter that keeps every child
whitelistFilterSubAll(v, whitelist) ==
    IF v.kind # "obj" THEN EmptyData ELSE v.o

\* whitelistFilterSub: the listed children of an object, nothing of a
\* value that is not an object
whitelistFilterSub(v, whitelist) ==
    IF v.kind # "obj" THEN EmptyData
    ELSE [k \in DOMAIN v.o \cap whitelist |-> v.o[k]]

\* the filter newWhitelistingFilter returns, applied to data
newWhitelistingFilter(whitelist, data) ==
    LET wl == WhitelistMap(whitelist)
        kept == { k \in DOMAIN data \cap DOMAIN wl :
                     wl[k] = {} \/ whitelistFilterSub(data[k], wl[k]) # EmptyData }
    IN  [k \in kept |->
            IF wl[k] = {} THEN data[k] ELSE Obj(whitelistFilterSub(data[k], wl[k]))]

\* the top-level keys a blacklist lists, and the children it lists under k
BlacklistTop(blacklist) ==
    { Split(blacklist[i])[1] : i \in { j \in DOMAIN blacklist : Len(Split(blacklist[j])) = 1 } }
BlacklistSub(blacklist, k) ==
    { Split(blacklist[i])[2] :
        i \in { j \in DOMAIN blacklist :
                  Len(Split(blacklist[j])) > 1 /\ Split(blacklist[j])[1] = k } }

\* a blacklist filter that ignores the dot-paths
newBlacklistingFilterTopOnly(blacklist, data) ==
    Delete(data, BlacklistTop(blacklist))

\* the filter newBlacklistingFilter returns, applied to data: the listed
\* paths are removed
newBlacklistingFilter(blacklist, data) ==
    LET rest == Delete(data, BlacklistTop(blacklist))
    IN  [k \in DOMAIN rest |->
            IF rest[k].kind = "obj"
            THEN Obj(Delete(rest[k].o, BlacklistSub(blacklist, k)))
            ELSE rest[k]]

\* a formatter that prefers the blacklist
PropertyFilterBlacklistFirst(whitelist, blacklist, data) ==
    IF Len(blacklist) > 0 THEN newBlacklistingFilter(blacklist, data)
    ELSE IF Len(whitelist) > 0 THEN newWhitelistingFilter(whitelist, data)
    ELSE data

\* the property filter NewEntityFormatter selects
PropertyFilter(whitelist, blacklist, data) ==
    IF Len(whitelist) > 0 THEN newWhitelistingFilter(whitelist, data)
    ELSE IF Len(blacklist) > 0 THEN newBlacklistingFilter(blacklist, data)
    ELSE data

\* Target: the object under the target key, the empty object if there is none
Target(target, data) ==
    IF target = "" THEN data
    ELSE IF target \in DOMAIN data /\ data[target].kind = "obj" THEN data[target].o
    ELSE EmptyData

\* Group: the object wrapped under the group key
Group(group, data) ==
    IF group = "" THEN data ELSE [k \in {group} |-> Obj(data)]

\* Mapping: every source key renamed to its target; the mappings used
\* here never make two keys collide
Renamed(mapping, k) == IF k \in DOMAIN mapping THEN mapping[k] ELSE k
Mapping(mapping, data) ==
    [k \in { Renamed(mapping, j) : j \in DOMAIN data } |->
        data[CHOOSE j \in DOMAIN data : Renamed(mapping, j) = k]]

\* the arguments of NewEntityFormatter
FormatterConfig(target, whitelist, blacklist, group, mapping) ==
    [target |-> target, whitelist |-> whitelist, blacklist |-> blacklist,
     group |-> group, mapping |-> mapping]
NoMapping == [k \in {} |-> ""]
Mappings == { NoMapping, [k \in {"g"} |-> "p"], [k \in {"a"} |-> "p"] }
FormatterConfigs ==
    { FormatterConfig(t, wl, bl, g, m) :
        t \in {"", "a"},
        wl \in SeqsOf(PathStrings, 0, MaxPaths),
        bl \in SeqsOf(PathStrings, 0, MaxPaths),
        g \in {"", "g"},
        m \in Mappings }

\* a formatter that groups before it filters
FormatGroupFirst(cfg, resp) ==
    Response(Mapping(cfg.mapping,
                 PropertyFilter(cfg.whitelist, cfg.blacklist,
                     Group(cfg.group, Target(cfg.target, resp.Data)))),
             resp.IsComplete)

\* entityFilter.Format: Target, the property filter, Group, Mapping
Format(cfg, resp) ==
    Response(Mapping(cfg.mapping,
                 Group(cfg.group,
                     PropertyFilter(cfg.whitelist, cfg.blacklist,
                         Target(cfg.target, resp.Data)))),
             resp.IsComplete)

FormatterIdle ==
    /\ eCfg = FormatterConfig("", <<>>, <<>>, "", NoMapping)
    /\ ePc = "idle"
    /\ eIn = NilResponse
    /\ eOut = NilResponse

\* NewEntityFormatter; the two lists together hold at most MaxPaths entries
FormatterStart ==
    /\ eCfg \in FormatterConfigs
    /\ Len(eCfg.whitelist) + Len(eCfg.blacklist) <= MaxPaths
    /\ ePc = "built"
    /\ eIn = NilResponse
    /\ eOut = NilResponse

\* the HTTP caller formats a decoded object
FormatterFormat ==
    /\ ePc = "built"
    /\ \E data \in Entities :
          /\ eIn' = Response(data, TRUE)
          /\ eOut' = Format(eCfg, Response(data, TRUE))
    /\ ePc' = "formatted"
    /\ UNCHANGED eCfg
    /\ UNCHANGED notFormatter

\* -------------------------------------------------- middleware wiring, call
ErrTooManyProxies == <<"too many proxies for this proxy middleware", 0>>
\* the runtime error of next[0] on an empty slice
IndexOutOfRange == <<"runtime error: index out of range", 0>>

NoPanic == [at |-> "none", value |-> NilErr]
Panic(at, value) == [at |-> at, value |-> value]

\* the backend the middleware was built for
MiddlewareBackend == Backend(1, "POST", <<Lit("/u/"), Key("Id")>>)

\* a Request struct: Headers, Query and Params are references to maps,
\* URL a reference to a URL object (Nil before the load-balance layer)
Nil == 0
RequestStruct(method, path, url, headers, query, params) ==
    [Method |-> method, Path |-> path, URL |-> url, Headers |-> headers,
     Query |-> query, Params |-> params]
NoStruct == RequestStruct("", <<>>, Nil, Nil, Nil, Nil)

\* a request together with the objects it refers to
View(req, heap) ==
    [Method |-> req.Method, Path |-> req.Path,
     URL |-> IF req.URL = Nil THEN <<>> ELSE <<heap[req.URL]>>,
     Headers |-> heap[req.Headers], Query |-> heap[req.Query],
     Params |-> heap[req.Params]]
NoView ==
    [Method |-> "", Path |-> <<>>, URL |-> <<>>, Headers |-> NoParams,
     Query |-> NoParams, Params |-> NoParams]

\* the heaps a caller's request may live in: headers at 1, query at 2,
\* params at 3
MapsOf(k, v) == { NoParams, [j \in {k} |-> v] }
CallerHeaps ==
    { <<h, q, p>> : h \in MapsOf("Accept", "json"), q \in MapsOf("q", "1"),
                    p \in {NoParams, IdParams} }
CallerRequests == { RequestStruct(m, <<"/in">>, Nil, 1, 2, 3) : m \in {"GET", "DELETE"} }

\* a copy of the struct alone, sharing every map
CloneShared(req, heap) == [r |-> req, heap |-> heap]

\* Request.Clone: a copy that owns new header, query and params maps
Clone(req, heap) ==
    [r |-> [req EXCEPT !.Headers = Len(heap) + 1, !.Query = Len(heap) + 2,
                       !.Params = Len(heap) + 3],
     heap |-> heap \o <<heap[req.Headers], heap[req.Query], heap[req.Params]>>]

\* url.Values.Encode
Encode(query) == { <<k, query[k]>> : k \in DOMAIN query }

\* a request-builder that keeps the inbound method
BuildRequestKeepMethod(remote, r, heap) ==
    [r |-> [r EXCEPT !.Path = GeneratePath(remote.URLPattern, heap[r.Params])],
     heap |-> heap]

\* the request-builder's writes to its clone
BuildRequest(remote, r, heap) ==
    [r |-> [r EXCEPT !.Path = GeneratePath(remote.URLPattern, heap[r.Params]),
                     !.Method = remote.Method],
     heap |-> heap]

\* the load-balance middleware's writes to its clone: a new URL object
BalanceRequest(host, r, heap) ==
    [r |-> [r EXCEPT !.URL = Len(heap) + 1],
     heap |-> Append(heap, [Raw |-> <<host>> \o r.Path, RawQuery |-> Encode(heap[r.Query])])]

\* what Host() of the middleware's balancer may return
MiddlewareHostResults ==
    { IF Guard(res).returned THEN Guard(res)
      ELSE HostResult(RoundRobinHost(res.hosts, 1), NilErr, res) :
        res \in Hosts("flaky", SubSeq(AllHosts, 1, 2)) }

\* a middleware that never looks at the balancer's error
HostFailedIgnored(res) == FALSE

\* the err != nil test after lb.Host()
HostFailed(res) == res.err # NilErr

\* the writes a downstream proxy may make through the pointer it was given
Mutations == {"none", "method", "path", "headers", "query", "params"}
MutateStruct(kind, req) ==
    CASE kind = "method" -> [req EXCEPT !.Method = "PUT"]
      [] kind = "path" -> [req EXCEPT !.Path = <<"/changed">>]
      [] OTHER -> req
MutateHeap(kind, req, heap) ==
    CASE kind = "headers" -> [heap EXCEPT ![req.Headers] = Put(@, "X-Seen", "1")]
      [] kind = "query" -> [heap EXCEPT ![req.Query] = Put(@, "page", "2")]
      [] kind = "params" -> [heap EXCEPT ![req.Params] = Put(@, "Id", "0")]
      [] OTHER -> heap

\* the middlewares that wrap exactly one downstream proxy
SingleDownstream == {"RequestBuilder", "LoadBalance", "Logging"}

\* the wire-time test of EmptyMiddleware: len(next) >= 1
EmptyMiddlewareTooMany(n) == n >= 1

\* the wire-time test of the other middlewares: len(next) > 1
TooMany(n) == n > 1

MiddlewareIdle ==
    /\ wMw = "Empty"
    /\ wN = 0
    /\ wPc = "idle"
    /\ wPanic = NoPanic
    /\ wProxy = "none"
    /\ wHostRes = NoHostResult
    /\ wHeap = <<>>
    /\ wOrigin = NoStruct
    /\ wBefore = NoView
    /\ wLocal = NoStruct
    /\ wTarget = "origin"
    /\ wDownCalls = 0
    /\ wDownReq = NoView
    /\ wRet = NoHTTPResult

\* a middleware is about to be applied to wN downstream proxies; should a
\* proxy come out of it, it is called with the caller's request
MiddlewareStart ==
    /\ wMw \in SingleDownstream \cup {"Empty"}
    /\ wN \in 0..MaxNext
    /\ wPc = "wire"
    /\ wPanic = NoPanic
    /\ wProxy = "none"
    /\ wHostRes \in MiddlewareHostResults
    /\ wMw # "LoadBalance" => wHostRes = HostResult(RoundRobinHost(AllHosts, 1), NilErr,
                                                    [hosts |-> SubSeq(AllHosts, 1, 2), err |-> NilErr])
    /\ wHeap \in CallerHeaps
    /\ wOrigin \in CallerRequests
    /\ wBefore = View(wOrigin, wHeap)
    /\ wLocal = NoStruct
    /\ wTarget = "origin"
    /\ wDownCalls = 0
    /\ wDownReq = NoView
    /\ wRet = NoHTTPResult

\* middleware(next...): the wire-time test, then the proxy it returns
MiddlewareWire ==
    /\ wPc = "wire"
    /\ IF wMw = "Empty"
       THEN IF EmptyMiddlewareTooMany(wN)
            THEN /\ wPanic' = Panic("wire", ErrTooManyProxies)
                 /\ wPc' = "panicked"
                 /\ UNCHANGED wProxy
            ELSE IF wN = 0
            THEN /\ wPanic' = Panic("wire", IndexOutOfRange)
                 /\ wPc' = "panicked"
                 /\ UNCHANGED wProxy
            ELSE /\ wProxy' = "next"
                 /\ wPc' = "wired"
                 /\ UNCHANGED wPanic
       ELSE IF TooMany(wN)
            THEN /\ wPanic' = Panic("wire", ErrTooManyProxies)
                 /\ wPc' = "panicked"
                 /\ UNCHANGED wProxy
            ELSE /\ wProxy' = "wrapper"
                 /\ wPc' = "wired"
                 /\ UNCHANGED wPanic
    /\ UNCHANGED <<wMw, wN, wHostRes, wHeap, wOrigin, wBefore, wLocal, wTarget,
                   wDownCalls, wDownReq, wRet>>
    /\ UNCHANGED notMiddleware

\* the wired proxy is called with the caller's request and runs up to the
\* invocation of next[0]
MiddlewareCall ==
    /\ wPc = "wired"
    /\ wProxy = "wrapper"
    /\ LET cloned == Clone(wOrigin, wHeap)
           built == IF wMw = "RequestBuilder"
                    THEN BuildRequest(MiddlewareBackend, cloned.r, cloned.heap)
                    ELSE BalanceRequest(wHostRes.host, cloned.r, cloned.heap)
       IN  IF wMw = "LoadBalance" /\ HostFailed(wHostRes)
           THEN /\ wRet' = HTTPResult(NilResponse, wHostRes.err)
                /\ wPc' = "returned"
                /\ UNCHANGED <<wPanic, wHeap, wLocal, wTarget, wDownCalls, wDownReq>>
           ELSE /\ wHeap' = IF wMw \in {"RequestBuilder", "LoadBalance"} THEN built.heap ELSE wHeap
                /\ wLocal' = IF wMw \in {"RequestBuilder", "LoadBalance"} THEN built.r ELSE wLocal
                /\ wTarget' = IF wMw \in {"RequestBuilder", "LoadBalance"} THEN "local" ELSE "origin"
                /\ IF wN = 0
                   THEN /\ wPanic' = Panic("call", IndexOutOfRange)
                        /\ wPc' = "panicked"
                        /\ UNCHANGED <<wDownCalls, wDownReq>>
                   ELSE /\ wDownCalls' = wDownCalls + 1
                        /\ wDownReq' = View(IF wTarget' = "local" THEN wLocal' ELSE wOrigin, wHeap')
                        /\ wPc' = "downstream"
                        /\ UNCHANGED wPanic
                /\ UNCHANGED wRet
    /\ UNCHANGED <<wMw, wN, wProxy, wHostRes, wOrigin, wBefore>>
    /\ UNCHANGED notMiddleware

\* the downstream proxy runs: it may write through the pointer it was
\* given, and returns; the middleware returns what it returned
DownstreamReturn ==
    /\ wPc = "downstream"
    /\ \E kind \in Mutations, res \in { HTTPResult(Response(DecodedData("object"), TRUE), NilErr),
                                         HTTPResult(NilResponse, BackendErr(1)) } :
          /\ IF wTarget = "local"
             THEN /\ wLocal' = MutateStruct(kind, wLocal)
                  /\ wHeap' = MutateHeap(kind, wLocal, wHeap)
                  /\ UNCHANGED wOrigin
             ELSE /\ wOrigin' = MutateStruct(kind, wOrigin)
                  /\ wHeap' = MutateHeap(kind, wOrigin, wHeap)
                  /\ UNCHANGED wLocal
          /\ wRet' = res
    /\ wPc' = "returned"
    /\ UNCHANGED <<wMw, wN, wPanic, wProxy, wHostRes, wBefore, wTarget, wDownCalls, wDownReq>>
    /\ UNCHANGED notMiddleware

\* ------------------------------------------------------ router registration
\* the methods a configuration may name; HEAD stands for every method the
\* routers do not know
EndpointMethods == {"GET", "POST", "PUT", "PATCH", "DELETE", "HEAD"}

\* an endpoint of the service configuration: the i-th of the list, with n
\* backends; endpoints have distinct paths
RouterEndpoint(i, method, n) ==
    [Method |-> method, Endpoint |-> <<"/e", i>>,
     Backend |-> [j \in 1..n |-> Backend(1, "GET", <<Lit("/x")>>)]]
\* the numbers of backends an endpoint may have: none, one, several
BackendCounts == {0, 1, MaxBackends}

\* the log entries of the registration loop
LogFactory(err) == <<"calling the ProxyFactory", err>>
LogSingleBackend(method, path) == <<"endpoints must have a single backend! Ignoring", method, path>>
LogUnsupported(method) == <<"Unsupported method", method>>

\* the cases of registerEndpoint's switch that reach the engine
EngineMethods(kind) ==
    IF kind = "mux" THEN {"GET", "POST", "PUT"}
    ELSE {"GET", "POST", "PUT", "PATCH", "DELETE"}

\* registerEndpoint(method, path, handler, toBackends): the log entries it
\* writes and whether the engine got the handler
registerEndpoint(kind, method, path, toBackends) ==
    IF method # "GET" /\ toBackends > 1
    THEN [log |-> <<LogSingleBackend(method, path)>>, handled |-> FALSE]
    ELSE IF method \in EngineMethods(kind)
    THEN [log |-> <<>>, handled |-> TRUE]
    ELSE [log |-> <<LogUnsupported(method)>>, handled |-> FALSE]

RouterIdle ==
    /\ rKind = "mux"
    /\ rEndpoints = <<>>
    /\ rPos = 0
    /\ rPc = "idle"
    /\ rRegistered = {}
    /\ rLog = <<>>

\* Run is about to call registerEndpoints(cfg.Endpoints)
RouterStart ==
    /\ rKind \in {"mux", "gin"}
    /\ \E len \in 1..MaxEndpoints :
          \E ms \in [1..len -> EndpointMethods], ns \in [1..len -> BackendCounts] :
             rEndpoints = [i \in 1..len |-> RouterEndpoint(i, ms[i], ns[i])]
    /\ rPos = 1
    /\ rPc = "loop"
    /\ rRegistered = {}
    /\ rLog = <<>>

\* one iteration of the loop of registerEndpoints
RouterRegister ==
    /\ rPc = "loop"
    /\ rPos <= Len(rEndpoints)
    /\ LET c == rEndpoints[rPos]
           built == New(c)
           reg == registerEndpoint(rKind, c.Method, c.Endpoint, Len(c.Backend))
       IN  IF built.err # NilErr
           THEN /\ rLog' = Append(rLog, LogFactory(built.err))
                /\ UNCHANGED rRegistered
           ELSE /\ rLog' = rLog \o reg.log
                /\ rRegistered' = IF reg.handled THEN rRegistered \cup {rPos} ELSE rRegistered
    /\ rPos' = rPos + 1
    /\ UNCHANGED <<rKind, rEndpoints, rPc>>
    /\ UNCHANGED notRouter

\* the loop ends and registerEndpoints returns
RouterReturn ==
    /\ rPc = "loop"
    /\ rPos > Len(rEndpoints)
    /\ rPc' = "done"
    /\ UNCHANGED <<rKind, rEndpoints, rPos, rRegistered, rLog>>
    /\ UNCHANGED notRouter

\* ------------------------------------------------------------ rate limiter
LimiterKeys == {"k1", "k2"}
LimiterConfigs == [WindowSize : 1..MaxWindow, RequestsPerSecond : 1..MaxLimit]

\* a *slidingWindow; a key without an entry in swl.windows has NoWindow.
\* totalCount, a statistic AllowN and cleanup never read, is left out
Window(requests, windowStart) ==
    [exists |-> TRUE, requests |-> requests, windowStart |-> windowStart]
NoWindow == [exists |-> FALSE, requests |-> <<>>, windowStart |-> 0]

\* the instants of a list that lie after now - WindowSize
After(times, windowStart) ==
    LET RECURSIVE Keep(_)
        Keep(s) == IF s = <<>> THEN <<>>
                   ELSE IF Head(s) > windowStart THEN <<Head(s)>> \o Keep(Tail(s))
                   ELSE Keep(Tail(s))
    IN  Keep(times)

\* SlidingWindowLimiter.AllowN(key, n) at instant now, on the key's window
AllowN(cfg, window, now, n) ==
    LET w == IF window.exists THEN window ELSE Window(<<>>, now)
        validRequests == After(w.requests, now - cfg.WindowSize)
        ok == Len(validRequests) + n <= cfg.RequestsPerSecond
    IN  [ok |-> ok,
         window |-> Window(IF ok THEN validRequests \o [i \in 1..n |-> now]
                           ELSE validRequests,
                           w.windowStart)]

\* one tick of cleanup at instant now: every window created more than two
\* WindowSize ago is deleted
Cleanup(cfg, windows, now) ==
    [k \in DOMAIN windows |->
        IF windows[k].exists /\ now - windows[k].windowStart > cfg.WindowSize * 2
        THEN NoWindow ELSE windows[k]]

LimiterIdle ==
    /\ lCfg = [WindowSize |-> 1, RequestsPerSecond |-> 1]
    /\ lNow = -1
    /\ lWindows = [k \in LimiterKeys |-> NoWindow]
    /\ lAdmitted = [k \in LimiterKeys |-> <<>>]
    /\ lLast = [ok |-> FALSE, admitted |-> 0]

\* NewSlidingWindowLimiter(config)
LimiterStart ==
    /\ lCfg \in LimiterConfigs
    /\ lNow = 0
    /\ lWindows = [k \in LimiterKeys |-> NoWindow]
    /\ lAdmitted = [k \in LimiterKeys |-> <<>>]
    /\ lLast = [ok |-> FALSE, admitted |-> 0]

\* time passes; admitted requests leave the trailing window
LimiterTick ==
    /\ lNow >= 0
    /\ lNow < MaxClock
    /\ lNow' = lNow + 1
    /\ lAdmitted' = [k \in LimiterKeys |-> After(lAdmitted[k], lNow' - lCfg.WindowSize)]
    /\ UNCHANGED <<lCfg, lWindows, lLast>>
    /\ UNCHANGED notLimiter

\* a call of AllowN(key, n), under swl.mu
LimiterAllowN ==
    /\ lNow >= 0
    /\ \E key \in LimiterKeys, n \in 1..MaxN :
          LET out == AllowN(lCfg, lWindows[key], lNow, n)
              admitted == Len(out.window.requests)
                            - Len(After(IF lWindows[key].exists THEN lWindows[key].requests ELSE <<>>,
                                        lNow - lCfg.WindowSize))
          IN  /\ lWindows' = [lWindows EXCEPT ![key] = out.window]
              /\ lAdmitted' = [lAdmitted EXCEPT ![key] = @ \o [i \in 1..admitted |-> lNow]]
              /\ lLast' = [ok |-> out.ok, admitted |-> admitted]
    /\ UNCHANGED <<lCfg, lNow>>
    /\ UNCHANGED notLimiter

\* the cleanup goroutine's ticker fires
LimiterCleanup ==
    /\ lNow >= 0
    /\ lWindows' = Cleanup(lCfg, lWindows, lNow)
    /\ UNCHANGED <<lCfg, lNow, lAdmitted, lLast>>
    /\ UNCHANGED notLimiter

\* ---------------------------------------------------------- health checker
StatusHealthy == "healthy"
StatusUnhealthy == "unhealthy"

\* the goroutines executeChecks starts, one per tick for the one check
Executions == 1..MaxExecutions

\* holders of hc.mu's write lock: none, or the goroutine of runChecks
NoHolder == 0
Ticker == -1

\* a HealthResult; the message tells which execution produced it
HealthResult(status, e) == [Status |-> status, Message |-> <<"checked", e>>]
\* the check as RegisterCheck leaves it
RegisteredCheck == [Status |-> StatusHealthy, Message |-> <<"", 0>>]

NotStarted == [pc |-> "none", result |-> RegisteredCheck]

HealthIdle ==
    /\ hcMu = [w |-> NoHolder, r |-> 0]
    /\ hcExec = [e \in Executions |-> NotStarted]
    /\ hcCheck = RegisteredCheck
    /\ hcReader = "off"
    /\ hcCopy = RegisteredCheck

\* NewHealthChecker, RegisterCheck, Start
HealthStart ==
    /\ hcMu = [w |-> NoHolder, r |-> 0]
    /\ hcExec = [e \in Executions |-> NotStarted]
    /\ hcCheck = RegisteredCheck
    /\ hcReader = "idle"
    /\ hcCopy = RegisteredCheck

\* executeChecks: hc.mu.Lock() and go hc.executeCheck(check)
HealthExecuteChecks ==
    /\ hcMu = [w |-> NoHolder, r |-> 0]
    /\ \E e \in Executions :
          /\ hcExec[e].pc = "none"
          /\ \A d \in Executions : d < e => hcExec[d].pc # "none"
          /\ hcExec' = [hcExec EXCEPT ![e].pc = "spawned"]
    /\ hcMu' = [hcMu EXCEPT !.w = Ticker]
    /\ UNCHANGED <<hcCheck, hcReader, hcCopy>>
    /\ UNCHANGED notHealth

\* executeChecks returns: the deferred hc.mu.Unlock()
HealthUnlock ==
    /\ hcMu.w = Ticker
    /\ hcMu' = [hcMu EXCEPT !.w = NoHolder]
    /\ UNCHANGED <<hcExec, hcCheck, hcReader, hcCopy>>
    /\ UNCHANGED notHealth

\* executeCheck up to the return of check.CheckFunc(ctx)
HealthCheckFunc(e) ==
    /\ hcExec[e].pc = "spawned"
    /\ \E status \in {StatusHealthy, StatusUnhealthy} :
          hcExec' = [hcExec EXCEPT ![e] = [pc |-> "result", result |-> HealthResult(status, e)]]
    /\ UNCHANGED <<hcMu, hcCheck, hcReader, hcCopy>>
    /\ UNCHANGED notHealth

\* executeCheck: check.Status = result.Status
HealthWriteStatus(e) ==
    /\ hcExec[e].pc = "result"
    /\ hcCheck' = [hcCheck EXCEPT !.Status = hcExec[e].result.Status]
    /\ hcExec' = [hcExec EXCEPT ![e].pc = "writing"]
    /\ UNCHANGED <<hcMu, hcReader, hcCopy>>
    /\ UNCHANGED notHealth

\* executeCheck: check.Message = result.Message, then LastChecked and
\* Duration, and the return
HealthWriteMessage(e) ==
    /\ hcExec[e].pc = "writing"
    /\ hcCheck' = [hcCheck EXCEPT !.Message = hcExec[e].result.Message]
    /\ hcExec' = [hcExec EXCEPT ![e].pc = "done"]
    /\ UNCHANGED <<hcMu, hcReader, hcCopy>>
    /\ UNCHANGED notHealth

\* GetHealth: hc.mu.RLock() and the first part of checks[name] = *check
HealthGetHealth ==
    /\ hcReader = "idle"
    /\ hcMu.w = NoHolder
    /\ hcMu' = [hcMu EXCEPT !.r = @ + 1]
    /\ hcCopy' = [hcCopy EXCEPT !.Status = hcCheck.Status]
    /\ hcReader' = "reading"
    /\ UNCHANGED <<hcExec, hcCheck>>
    /\ UNCHANGED notHealth

\* GetHealth: the rest of the copy and the deferred hc.mu.RUnlock()
HealthGetHealthReturn ==
    /\ hcReader = "reading"
    /\ hcCopy' = [hcCopy EXCEPT !.Message = hcCheck.Message]
    /\ hcMu' = [hcMu EXCEPT !.r = @ - 1]
    /\ hcReader' = "idle"
    /\ UNCHANGED <<hcExec, hcCheck>>
    /\ UNCHANGED notHealth

\* --------------------------------------------------------- specifications
\* the factory compiles an endpoint and one of its stacks is invoked
InitFactory == FactoryStart /\ CallIdle /\ MergeIdle /\ ConcurrentIdle /\ HandlerIdle /\ BalancerIdle /\ HTTPIdle /\ FormatterIdle /\ MiddlewareIdle /\ RouterIdle /\ LimiterIdle /\ HealthIdle
NextFactory ==
    \/ FactoryNew
    \/ CallStart
    \/ CallStep
SpecFactory == InitFactory /\ [][NextFactory]_vars

\* one invocation of a merged proxy
InitMerge == MergeStart /\ FactoryIdle /\ CallIdle /\ ConcurrentIdle /\ HandlerIdle /\ BalancerIdle /\ HTTPIdle /\ FormatterIdle /\ MiddlewareIdle /\ RouterIdle /\ LimiterIdle /\ HealthIdle
NextMerge ==
    \/ MergeCall
    \/ \E i \in DOMAIN mNext : BackendReturn(i)
    \/ MergeCtxDone
    \/ MergeReceive
    \/ MergeCtxFired
SpecMerge == InitMerge /\ [][NextMerge]_vars

\* one invocation of a concurrent layer
InitConcurrent == ConcurrentStart /\ FactoryIdle /\ CallIdle /\ MergeIdle /\ HandlerIdle /\ BalancerIdle /\ HTTPIdle /\ FormatterIdle /\ MiddlewareIdle /\ RouterIdle /\ LimiterIdle /\ HealthIdle
NextConcurrent ==
    \/ ConcurrentCall
    \/ \E i \in DOMAIN kWorker : WorkerReturn(i)
    \/ ConcurrentCtxDone
    \/ ConcurrentReceive
    \/ ConcurrentCtxFired
SpecConcurrent == InitConcurrent /\ [][NextConcurrent]_vars

\* the same, with every worker goroutine scheduled: its downstream call
\* ends and it gets to send whenever the channel has room
SpecConcurrentLive ==
    /\ InitConcurrent
    /\ [][NextConcurrent]_vars
    /\ \A i \in 1..MaxConcurrentCalls : WF_vars(i \in DOMAIN kWorker /\ WorkerReturn(i))

\* one request through an endpoint handler
InitHandler ==
    /\ HandlerStart
    /\ FactoryIdle /\ CallIdle /\ MergeIdle /\ ConcurrentIdle /\ BalancerIdle /\ HTTPIdle /\ FormatterIdle /\ MiddlewareIdle /\ RouterIdle /\ LimiterIdle /\ HealthIdle
NextHandler ==
    \/ Tick
    \/ ClientDisconnect
    \/ HandlerEnter
    \/ ProxyReturn
    \/ HandlerFinish
SpecHandler == InitHandler /\ [][NextHandler]_vars

\* Host() calls of several goroutines on one balancer
InitBalancer ==
    /\ BalancerStart
    /\ FactoryIdle /\ CallIdle /\ MergeIdle /\ ConcurrentIdle /\ HandlerIdle /\ HTTPIdle /\ FormatterIdle /\ MiddlewareIdle /\ RouterIdle /\ LimiterIdle /\ HealthIdle
NextBalancer ==
    \/ \E g \in Goroutines : BalancerHosts(g)
    \/ \E g \in Goroutines : BalancerIntn(g)
    \/ \E g \in Goroutines : BalancerPick(g)
SpecBalancer == InitBalancer /\ [][NextBalancer]_vars

\* one call of the HTTP backend caller
InitHTTP ==
    /\ HTTPStart
    /\ FactoryIdle /\ CallIdle /\ MergeIdle /\ ConcurrentIdle /\ HandlerIdle /\ BalancerIdle /\ FormatterIdle /\ MiddlewareIdle /\ RouterIdle /\ LimiterIdle /\ HealthIdle
NextHTTP ==
    \/ HTTPCtxDone
    \/ HTTPDo
    \/ HTTPCloseRequestBody
    \/ HTTPFinish
SpecHTTP == InitHTTP /\ [][NextHTTP]_vars

\* one object through an entity formatter
InitFormatter ==
    /\ FormatterStart
    /\ FactoryIdle /\ CallIdle /\ MergeIdle /\ ConcurrentIdle /\ HandlerIdle /\ BalancerIdle
    /\ HTTPIdle /\ MiddlewareIdle /\ RouterIdle /\ LimiterIdle /\ HealthIdle
NextFormatter ==
    \/ FormatterFormat
SpecFormatter == InitFormatter /\ [][NextFormatter]_vars

\* a middleware is wired and the resulting proxy called once
InitMiddleware ==
    /\ MiddlewareStart
    /\ FactoryIdle /\ CallIdle /\ MergeIdle /\ ConcurrentIdle /\ HandlerIdle /\ BalancerIdle
    /\ HTTPIdle /\ FormatterIdle /\ RouterIdle /\ LimiterIdle /\ HealthIdle
NextMiddleware ==
    \/ MiddlewareWire
    \/ MiddlewareCall
    \/ DownstreamReturn
SpecMiddleware == InitMiddleware /\ [][NextMiddleware]_vars

\* a router registers the endpoints of a service configuration
InitRouter ==
    /\ RouterStart
    /\ FactoryIdle /\ CallIdle /\ MergeIdle /\ ConcurrentIdle /\ HandlerIdle /\ BalancerIdle
    /\ HTTPIdle /\ FormatterIdle /\ MiddlewareIdle /\ LimiterIdle /\ HealthIdle
NextRouter ==
    \/ RouterRegister
    \/ RouterReturn
SpecRouter == InitRouter /\ [][NextRouter]_vars

\* AllowN calls and cleanup ticks on one sliding-window limiter
InitLimiter ==
    /\ LimiterStart
    /\ FactoryIdle /\ CallIdle /\ MergeIdle /\ ConcurrentIdle /\ HandlerIdle /\ BalancerIdle
    /\ HTTPIdle /\ FormatterIdle /\ MiddlewareIdle /\ RouterIdle /\ HealthIdle
NextLimiter ==
    \/ LimiterTick
    \/ LimiterAllowN
    \/ LimiterCleanup
SpecLimiter == InitLimiter /\ [][NextLimiter]_vars

\* a started health checker with one check, and callers of GetHealth
InitHealth ==
    /\ HealthStart
    /\ FactoryIdle /\ CallIdle /\ MergeIdle /\ ConcurrentIdle /\ HandlerIdle /\ BalancerIdle
    /\ HTTPIdle /\ FormatterIdle /\ MiddlewareIdle /\ RouterIdle /\ LimiterIdle
NextHealth ==
    \/ HealthExecuteChecks
    \/ HealthUnlock
    \/ \E e \in Executions : HealthCheckFunc(e)
    \/ \E e \in Executions : HealthWriteStatus(e)
    \/ \E e \in Executions : HealthWriteMessage(e)
    \/ HealthGetHealth
    \/ HealthGetHealthReturn
SpecHealth == InitHealth /\ [][NextHealth]_vars

\* ------------------------------------------------------- merge properties
MergeBackends == 1..Len(mCfg.Backend)
MergeSucceeded == { i \in MergeBackends : mOutcome[i] = "ok" }
MergeFailedSet == { i \in MergeBackends : mOutcome[i] = "fail" }

\* the object obtained by merging the successful results collected so
\* far: every key of a collected success, with the value of the success
\* collected last among those that have the key
CollectedOk == { j \in DOMAIN mOrder : mOutcome[mOrder[j]] = "ok" }
LastWith(k) ==
    CHOOSE j \in CollectedOk :
        /\ k \in mKeys[mOrder[j]]
        /\ \A j2 \in CollectedOk : k \in mKeys[mOrder[j2]] => j2 <= j
MergedSoFar ==
    [k \in UNION { mKeys[mOrder[j]] : j \in CollectedOk } |-> mOrder[LastWith(k)]]

\* C1: when Merge has collected all K results before the caller's context
\* fired, IsComplete is true exactly when every backend call succeeded;
\* when some but not all backends failed the error is nil, IsComplete is
\* false and Data holds the keys of the successful backends.
MergePartialFailure ==
    mPc = "done" =>
        /\ mRet.IsComplete <=> (\A i \in MergeBackends : mOutcome[i] = "ok")
        /\ (MergeSucceeded # {} /\ MergeSucceeded # MergeBackends) =>
              /\ mRet.err = NilErr
              /\ ~mRet.IsComplete
              /\ DOMAIN mRet.Data = UNION { mKeys[i] : i \in MergeSucceeded }

MergePartialFailureWitness ==
    /\ mPc = "done"
    /\ MergeSucceeded # {}
    /\ MergeFailedSet # {}
    /\ DOMAIN mRet.Data # {}
    /\ mOutcome[mOrder[1]] = "fail"

\* C2: when no backend of the endpoint failed and the backends' key sets
\* are pairwise disjoint, then whatever the order in which the workers
\* completed, the merged Data has exactly the union of the backends' keys,
\* each key with its backend's value, and IsComplete is true.
MergeUnion ==
    (/\ mPc = "done"
     /\ MergeFailedSet = {}
     /\ \A i, j \in MergeBackends : i # j => mKeys[i] \cap mKeys[j] = {}) =>
        /\ DOMAIN mRet.Data = UNION { mKeys[i] : i \in MergeBackends }
        /\ \A i \in MergeBackends : \A k \in mKeys[i] : mRet.Data[k] = i
        /\ mRet.IsComplete
        /\ mRet.err = NilErr

\* backend 2 completed before backend 1, both with a key of their own
MergeUnionWitness ==
    /\ mPc = "done"
    /\ MergeSucceeded = MergeBackends
    /\ \A i, j \in MergeBackends : i # j => mKeys[i] \cap mKeys[j] = {}
    /\ mKeys[1] # {} /\ mKeys[2] # {}
    /\ mOrder[1] = 2
    /\ Cardinality(DOMAIN mRet.Data) = 2

\* C3: Merge returns a non-nil error only when every one of the K backend
\* calls failed, the error then being the error of the failure collected
\* last; when all K results are collected and all are failures that error
\* is returned, and in every other case the error is nil.
MergeErrorOnlyWhenAllFailed ==
    mPc \in {"done", "cancelled"} =>
        /\ mRet.err # NilErr =>
              /\ \A i \in MergeBackends : mOutcome[i] = "fail"
              /\ mRet.err = BackendErr(mOrder[Len(mOrder)])
        /\ (mPc = "done" /\ MergeFailedSet = MergeBackends) =>
              mRet.err = BackendErr(mOrder[Len(mOrder)])

\* every backend failed, and the failure collected last is not the one of
\* the last backend
MergeErrorWitness ==
    /\ mPc = "done"
    /\ MergeFailedSet = MergeBackends
    /\ mRet.err = BackendErr(1)
    /\ mOrder[1] # 1

ConcurrentN == ConcurrentWorkers(kLayer)
ConcurrentOver == kPc \in {"returned", "cancelled"}
WorkersOk == { i \in DOMAIN kOutcome : kOutcome[i] = "ok" }
SeenOk == { j \in DOMAIN kSeen : kSeen[j].ok }

ConcurrentLastError ==
    ConcurrentOver =>
        /\ kRet.err \notin {NilErr, CtxErr} =>
              /\ Len(kSeen) = ConcurrentN
              /\ SeenOk = {}
              /\ \A i \in DOMAIN kOutcome : kOutcome[i] = "fail"
              /\ kRet.err = kSeen[Len(kSeen)].err
        /\ (~kCtxDone /\ ConcurrentN >= 1 /\ \A i \in DOMAIN kOutcome : kOutcome[i] = "fail") =>
              (kRet.resp = NoResponse /\ kRet.err = kSeen[Len(kSeen)].err)
        /\ ~kCtxDone => kRet.err # CtxErr

\* all workers failed, the last observed failure is not the first one
ConcurrentLastErrorWitness ==
    /\ kPc = "returned"
    /\ ~kCtxDone
    /\ ConcurrentN >= 2
    /\ Len(kSeen) = ConcurrentN
    /\ kRet.err = BackendErr(1)
    /\ kSeen[1].err # BackendErr(1)

FactoryDispatch ==
    fPc = "built" =>
        LET n == Len(fCfg.Backend)
        IN  /\ n = 0 => (fErr = ErrNoBackends /\ fProxy = NoProxy)
            /\ n = 1 => (fErr = NilErr /\ fProxy = newStack(fCfg.Backend[1]))
            /\ n >= 2 =>
                  /\ fErr = NilErr
                  /\ fProxy.kind = "merge"
                  /\ Len(fProxy.next) = n
                  /\ \A i \in 1..n : fProxy.next[i] = newStack(fCfg.Backend[i])

\* a two-stack merge whose second stack has been invoked
FactoryDispatchWitness ==
    /\ fPc = "built"
    /\ Len(fCfg.Backend) >= 2
    /\ fProxy.kind = "merge"
    /\ fCfg.Backend[1] # fCfg.Backend[2]
    /\ cPc = "done"
    /\ cLayers = fProxy.next[2].layers

\* the backend a stack was compiled for
StackBackend(layers) == layers[Len(layers)].backend

\* C9: in every stack the factory builds the request builder is the
\* outermost layer and the load-balance layer directly wraps the HTTP
\* caller; the requests the load-balance layer and the HTTP caller
\* receive carry the backend's Method and the Path generated from its
\* URLPattern.
StackOrder ==
    cPc # "idle" =>
        LET b == StackBackend(cLayers)
            built == RequestBuilderRequest(b, cIn)
        IN  /\ cLayers[1].mw = "RequestBuilder"
            /\ cLayers[Len(cLayers) - 1].mw = "LoadBalance"
            /\ cLayers[Len(cLayers)].mw = "HTTPCaller"
            /\ cLBHits > 0 => (cLBReq.Method = built.Method /\ cLBReq.Path = built.Path)
            /\ cHTTPReq # NoRequest => (cHTTPReq.Method = built.Method /\ cHTTPReq.Path = built.Path)

\* C10: a stack has a concurrent layer exactly when its backend has
\* ConcurrentCalls > 1; with ConcurrentCalls <= 1 there is none and one
\* invocation enters the load-balance layer exactly once.
ConcurrentOnlyWhenConfigured ==
    /\ fPc = "built" =>
          \A i \in DOMAIN StacksOf(fProxy) :
              LET layers == StacksOf(fProxy)[i].layers
              IN  (\E j \in DOMAIN layers : layers[j].mw = "Concurrent")
                      <=> StackBackend(layers).ConcurrentCalls > 1
    /\ (cPc = "done" /\ StackBackend(cLayers).ConcurrentCalls <= 1) => cLBHits = 1

\* ----------------------------------------------------- handler properties
\* the handler ran to its end on a request whose method matched
HandlerServed == hPc = "returned" /\ hProxyCalls = 1
\* the proxy's response has a JSON serialization
Serializable(resp) == resp.Nil \/ MarshalErr(resp.Data) = NilErr
\* the error text reached the client or, under gin, the context's errors
Reported(err) == hBody = <<Text(Error(err))>> \/ (hKind = "gin" /\ hErrors = <<err>>)
\* a chunk of response data, as opposed to an error text
IsData(chunk) == "object" \in DOMAIN chunk

\* C11: for a request whose method matches, the handler writes exactly one
\* response: 500 with the error text when the proxy returned an error, 500
\* with "internal server error" when it returned none but the derived
\* context is done, 200 otherwise; a 500 carries no response data and no
\* Cache-Control header.
HandlerErrorResponses ==
    HandlerServed =>
        /\ hErr # NilErr => hStatus = StatusInternalServerError /\ Reported(hErr)
        /\ (hErr = NilErr /\ hSawDone) =>
              hStatus = StatusInternalServerError /\ Reported(ErrInternalError)
        /\ (hErr = NilErr /\ ~hSawDone /\ Serializable(hResp)) => hStatus = StatusOK
        /\ hStatus = StatusInternalServerError =>
              /\ hCacheControl = NoHeader
              /\ \A j \in DOMAIN hBody : ~IsData(hBody[j])

\* C12: whenever the proxy returns a non-nil response with no error and the
\* derived context is not done, the 200 body is the JSON serialization of
\* response.Data, whatever the cache TTL and whatever IsComplete.
HandlerBodyIsData ==
    (HandlerServed /\ hErr = NilErr /\ ~hSawDone /\ ~hResp.Nil /\ Serializable(hResp)) =>
        /\ hStatus = StatusOK
        /\ hBody = <<Marshal(hResp.Data)>>

\* C13: the handler emits Cache-Control exactly when the cache TTL is
\* greater than zero and the proxy's response has IsComplete = true, with
\* the value "public, max-age=<ttl in whole seconds>"; never for a response
\* with IsComplete = false.
HandlerCacheControl ==
    HandlerServed =>
        /\ hStatus = StatusOK =>
              (hCacheControl.set <=>
                  (hCfg.CacheTTL > 0 /\ ~hResp.Nil /\ hResp.IsComplete))
        /\ hCacheControl.set =>
              /\ hResp.IsComplete
              /\ hCacheControl = MaxAge(TRUE, WholeSeconds(hCfg.CacheTTL))

\* C14: the derived context expires Timeout milliseconds after the handler
\* started, that context is the one the proxy runs under, and with a
\* backend that never responds the proxy returns at the expiry and the
\* handler answers 500.
HandlerTimeout ==
    /\ hDeadline # NoDeadline =>
          /\ hDeadline = hStart + hCfg.Timeout * Millisecond
          /\ hProxyCtx = hDeadline
    /\ (hBackend = "never" /\ hPc \in {"check", "returned"} /\ hProxyCalls = 1) =>
          hNow >= hStart + hCfg.Timeout * Millisecond
    /\ (hBackend = "never" /\ HandlerServed) => hStatus = StatusInternalServerError

HandlerTimeoutWitness ==
    /\ hBackend = "never"
    /\ HandlerServed
    /\ hCfg.Timeout = MaxTimeout
    /\ hNow = hStart + hCfg.Timeout * Millisecond
    /\ hStatus = StatusInternalServerError
    /\ hErr = DeadlineErr

\* C15: on every exit path taken after the timeout context was derived
\* (proxy error, context done, marshalling error, normal completion) the
\* context's cancel function has been called when the handler returns.
HandlerCancels ==
    (hPc = "returned" /\ hDeadline # NoDeadline) => hCancels >= 1

HandlerCancelsWitness ==
    /\ hPc = "returned"
    /\ hDeadline # NoDeadline
    /\ hKind = "mux"
    /\ hBody = <<Text(Error(UnsupportedTypeErr))>>
    /\ hCancels = 1

\* C16: when the inbound method differs from the endpoint's, the handler
\* answers 405 Method Not Allowed, the compiled proxy is not invoked and no
\* context is derived.
HandlerMethodNotAllowed ==
    hMethod # hCfg.Method =>
        /\ hProxyCalls = 0
        /\ hDeadline = NoDeadline
        /\ hPc = "returned" => hStatus = StatusMethodNotAllowed

HandlerMethodNotAllowedWitness ==
    /\ hPc = "returned"
    /\ hMethod # hCfg.Method
    /\ hStatus = StatusMethodNotAllowed
    /\ hNow > 0

\* ---------------------------------------------------- balancer properties
\* C17: on a round-robin balancer over a fixed non-empty list of L hosts,
\* the i-th Host() call counted from construction returns
\* hosts[(i-1) mod L] (indices from 0); with two hosts the calls alternate.
RoundRobinOrder ==
    (bKind = "roundRobin" /\ bSubscriber = "fixed" /\ bPicked >= 1) =>
        bLast = bHosts[((bPicked - 1) % Len(bHosts)) + 1]

RoundRobinOrderWitness ==
    /\ bKind = "roundRobin"
    /\ bSubscriber = "fixed"
    /\ Len(bHosts) = 2
    /\ bPicked = 4
    /\ bLast = bHosts[2]
    /\ bCounter = 4

\* C18: for a fixed list of H hosts and k*H Host() calls completed by any
\* number of goroutines in any interleaving on one fresh round-robin
\* balancer, each host was returned exactly k times.
RoundRobinFair ==
    (/\ bKind = "roundRobin"
     /\ bSubscriber = "fixed"
     /\ Len(bHosts) >= 1
     /\ bPicked % Len(bHosts) = 0) =>
        \A i \in 1..Len(bHosts) : bCount[i] = bPicked \div Len(bHosts)

RoundRobinFairWitness ==
    /\ bKind = "roundRobin"
    /\ bSubscriber = "fixed"
    /\ Len(bHosts) = MaxHosts
    /\ bPicked = Len(bHosts)
    /\ \A i \in 1..Len(bHosts) : bCount[i] = 1
    /\ \A g \in Goroutines : bPc[g] = "pick"

\* C19: Host() of either balancer returns ErrNoHosts when the subscriber
\* returned an empty list without error and the subscriber's own error
\* when it failed, both with the empty host string; otherwise it returns a
\* member of the subscriber's list.
BalancerErrors ==
    \A g \in Goroutines :
        bRet[g].returned =>
            LET from == bRet[g].from IN
            /\ from.err # NilErr =>
                  bRet[g].err = from.err /\ bRet[g].host = NoHost
            /\ (from.err = NilErr /\ from.hosts = <<>>) =>
                  bRet[g].err = ErrNoHosts /\ bRet[g].host = NoHost
            /\ (from.err = NilErr /\ from.hosts # <<>>) =>
                  bRet[g].err = NilErr /\ bRet[g].host \in Range(from.hosts)

BalancerErrorsWitness ==
    \E g1, g2 \in Goroutines :
        /\ bRet[g1].returned
        /\ bRet[g1].from.err = SubscriberErr
        /\ bRet[g1].err = SubscriberErr
        /\ bRet[g2].returned
        /\ bRet[g2].err = ErrNoHosts
        /\ bKind = "random"

\* ------------------------------------------------- HTTP caller properties
\* the caller returned after the exchange yielded a response under a
\* context that was not done
HTTPJudged == pPc = "returned" /\ pExchange = "response" /\ pRet.err # CtxErr

\* C20: the HTTP backend caller treats a backend response as a success
\* exactly when its status code is 200 or 201; for any other code it
\* returns ErrInvalidStatusCode and no response, without decoding the body.
HTTPStatusCodes ==
    HTTPJudged =>
        IF pStatusCode \in {200, 201}
        THEN /\ pDecoded
             /\ pRet.err # ErrInvalidStatusCode
             /\ Decodable(pBody) => (pRet.err = NilErr /\ ~pRet.resp.Nil)
        ELSE /\ pRet = HTTPResult(NilResponse, ErrInvalidStatusCode)
             /\ ~pDecoded

HTTPStatusCodesWitness ==
    /\ HTTPJudged
    /\ pStatusCode = 200
    /\ pRet.err = NilErr
    /\ pRet.resp = Response(DecodedData("object"), TRUE)

\* C21: whenever the HTTP backend caller has received a backend response,
\* that response's body is closed when the caller returns, on every exit
\* path: success, decoder error, invalid status code, context done after
\* the response arrived.
HTTPBodyClosed ==
    (pPc = "returned" /\ pExchange = "response") => pBodyClosed

\* ---------------------------------------------------- formatter properties
\* the object the property filter is applied to
Filtered == Target(eCfg.target, eIn.Data)
\* the formatter neither groups nor renames
Unshaped == eCfg.group = "" /\ eCfg.mapping = NoMapping
\* the entries of a list that start with key k, split
EntriesOf(list, k) == { Split(list[i]) : i \in { j \in DOMAIN list : Split(list[j])[1] = k } }
\* the first segments of a list, and the children it lists under k
Firsts(list) == { Split(list[i])[1] : i \in DOMAIN list }
ListedSubs(list, k) == UNION { { e[i] : i \in 2..Len(e) } : e \in EntriesOf(list, k) }
\* the children of key k in object data, none if the value is no object
ChildrenOf(data, k) ==
    IF k \in DOMAIN data /\ data[k].kind = "obj" THEN DOMAIN data[k].o ELSE {}
ExampleEntity == [k \in {"a", "b"} |-> IF k = "a" THEN Obj([j \in {"x", "y"} |-> Num(IF j = "x" THEN 1 ELSE 2)]) ELSE Num(3)]

\* C22: after formatting with a non-empty whitelist every top-level key of
\* the output is the first segment of a whitelist entry, and a key listed
\* only with sub-keys holds an object with exactly the listed children
\* present in the input, the key being absent when none remains.
WhitelistSound ==
    (ePc = "formatted" /\ Len(eCfg.whitelist) > 0 /\ Unshaped) =>
        /\ DOMAIN eOut.Data \subseteq Firsts(eCfg.whitelist)
        /\ \A k \in Firsts(eCfg.whitelist) :
              (\A e \in EntriesOf(eCfg.whitelist, k) : Len(e) > 1) =>
                  LET kept == ChildrenOf(Filtered, k) \cap ListedSubs(eCfg.whitelist, k)
                  IN  IF kept = {} THEN k \notin DOMAIN eOut.Data
                      ELSE /\ k \in DOMAIN eOut.Data
                           /\ eOut.Data[k] = Obj([j \in kept |-> Filtered[k].o[j]])

WhitelistSoundWitness ==
    /\ ePc = "formatted"
    /\ Unshaped
    /\ eCfg.target = ""
    /\ eCfg.whitelist = << <<"a", Dot, "x">> >>
    /\ eIn.Data = ExampleEntity
    /\ eOut.Data = [k \in {"a"} |-> Obj([j \in {"x"} |-> Num(1)])]

\* C23: after formatting with a non-empty blacklist and an empty whitelist
\* no listed top-level key and no listed child a.b remains in the output,
\* and every key and child of the input that is not listed is kept with
\* its value.
BlacklistSound ==
    (ePc = "formatted" /\ eCfg.whitelist = <<>> /\ Len(eCfg.blacklist) > 0 /\ Unshaped) =>
        LET tops == { k \in Firsts(eCfg.blacklist) :
                         \E e \in EntriesOf(eCfg.blacklist, k) : Len(e) = 1 }
        IN  /\ DOMAIN eOut.Data = DOMAIN Filtered \ tops
            /\ \A k \in DOMAIN eOut.Data :
                  IF Filtered[k].kind = "obj"
                  THEN /\ eOut.Data[k].kind = "obj"
                       /\ DOMAIN eOut.Data[k].o =
                             DOMAIN Filtered[k].o \ ListedSubs(eCfg.blacklist, k)
                       /\ \A j \in DOMAIN eOut.Data[k].o :
                             eOut.Data[k].o[j] = Filtered[k].o[j]
                  ELSE eOut.Data[k] = Filtered[k]

BlacklistSoundWitness ==
    /\ ePc = "formatted"
    /\ Unshaped
    /\ eCfg.target = ""
    /\ eCfg.whitelist = <<>>
    /\ eCfg.blacklist = << <<"b">>, <<"a", Dot, "x">> >>
    /\ eIn.Data = ExampleEntity
    /\ eOut.Data = [k \in {"a"} |-> Obj([j \in {"y"} |-> Num(2)])]

\* C24: with both a non-empty whitelist and a non-empty blacklist the
\* formatter applies the whitelist only: its output is that of the same
\* formatter built with an empty blacklist.
WhitelistWins ==
    (ePc = "formatted" /\ Len(eCfg.whitelist) > 0 /\ Len(eCfg.blacklist) > 0) =>
        eOut = Format([eCfg EXCEPT !.blacklist = <<>>], eIn)

WhitelistWinsWitness ==
    /\ ePc = "formatted"
    /\ Unshaped
    /\ eCfg.target = ""
    /\ eCfg.whitelist = << <<"a">> >>
    /\ eCfg.blacklist = << <<"a">> >>
    /\ eIn.Data = ExampleEntity
    /\ eOut.Data = [k \in {"a"} |-> ExampleEntity["a"]]

\* C25: the formatter applies Target, then the whitelist or blacklist,
\* then Group, then Mapping: the filter sees the un-grouped, un-renamed
\* keys, and a mapping from the group key renames the group wrapper.
FormatOrder ==
    ePc = "formatted" =>
        LET inner == PropertyFilter(eCfg.whitelist, eCfg.blacklist, Filtered)
        IN  IF eCfg.group # ""
            THEN eOut.Data = [k \in {Renamed(eCfg.mapping, eCfg.group)} |-> Obj(inner)]
            ELSE eOut.Data = Mapping(eCfg.mapping, inner)

FormatOrderWitness ==
    /\ ePc = "formatted"
    /\ eCfg.target = ""
    /\ eCfg.whitelist = << <<"b">> >>
    /\ eCfg.group = "g"
    /\ eCfg.mapping = [k \in {"g"} |-> "p"]
    /\ eIn.Data = ExampleEntity
    /\ eOut.Data = [k \in {"p"} |-> Obj([j \in {"b"} |-> Num(3)])]

\* the middlewares that clone the request before they write to it
Cloning == {"RequestBuilder", "LoadBalance"}

\* C26: a call through the request-builder or the load-balance middleware
\* leaves the caller's request as it was before the call: its Method, Path,
\* URL, Headers, Query and Params, maps included, whatever the middleware and
\* the downstream proxy write
CloneIsolation ==
    (wMw \in Cloning /\ wPc \in {"downstream", "returned", "panicked"}) =>
        View(wOrigin, wHeap) = wBefore

\* the downstream proxy was handed a rewritten clone, wrote to the clone's
\* headers, and the call returned
CloneIsolationWitness ==
    /\ wMw \in Cloning
    /\ wPc = "returned"
    /\ wDownCalls = 1
    /\ wDownReq # wBefore
    /\ wHeap[wLocal.Headers] # wBefore.Headers

\* C28: request-builder, load-balance and logging middleware given a number
\* of downstream proxies other than one panic at wire time, with
\* ErrTooManyProxies when given more than one, and never hand out a proxy
\* that fails at request time
WireTimePanic ==
    (wMw \in SingleDownstream /\ wPc # "wire") =>
        /\ wN # 1 => wPanic.at = "wire"
        /\ wN > 1 => wPanic = Panic("wire", ErrTooManyProxies)
        /\ wPanic.at # "call"

\* C29: EmptyMiddleware given exactly one downstream proxy returns that
\* proxy without a panic, and panics with ErrTooManyProxies only when given
\* more than one
EmptyMiddlewareUsable ==
    (wMw = "Empty" /\ wPc # "wire") =>
        /\ wN = 1 => (wPanic = NoPanic /\ wProxy = "next")
        /\ wPanic.value = ErrTooManyProxies => wN > 1

\* C30: when the balancer's Host() fails, the load-balance middleware
\* returns that error with no response and never invokes the downstream
\* proxy
HostErrorShortCircuit ==
    (wMw = "LoadBalance" /\ wHostRes.err # NilErr /\ wProxy = "wrapper") =>
        /\ wPc \in {"wired", "returned"}
        /\ wDownCalls = 0
        /\ wPc = "returned" => wRet = HTTPResult(NilResponse, wHostRes.err)

\* the middleware, wired to one downstream proxy, returned ErrNoHosts
HostErrorShortCircuitWitness ==
    /\ wMw = "LoadBalance"
    /\ wN = 1
    /\ wHostRes.err = ErrNoHosts
    /\ wPc = "returned"
    /\ wRet.err = ErrNoHosts

\* the endpoints the configuration schema and the single-backend rule admit
Registrable(c) ==
    /\ New(c).err = NilErr
    /\ c.Method \in {"GET", "POST", "PUT", "PATCH", "DELETE"}
    /\ (c.Method = "GET" \/ Len(c.Backend) = 1)

\* C27: every endpoint the loop has passed is registered with the engine
\* exactly when the factory compiled it, its method is GET, POST, PUT, PATCH
\* or DELETE, and it is a GET or has one backend; the loop passes every
\* endpoint of the list, whatever was dropped before
RouterRegistration ==
    /\ \A i \in 1..Len(rEndpoints) :
          i < rPos => (i \in rRegistered <=> Registrable(rEndpoints[i]))
    /\ rPc = "done" => rPos = Len(rEndpoints) + 1

\* C31: the request the request-builder middleware hands to the downstream
\* proxy has the backend's method, whatever the inbound method, and the
\* backend's URL pattern as path with every {K} replaced by params[K], or by
\* the empty string when the params have no K
RequestBuilt ==
    (wMw = "RequestBuilder" /\ wDownCalls > 0) =>
        /\ wDownReq.Method = MiddlewareBackend.Method
        /\ Len(wDownReq.Path) = Len(MiddlewareBackend.URLPattern)
        /\ \A i \in 1..Len(MiddlewareBackend.URLPattern) :
              LET tok == MiddlewareBackend.URLPattern[i]
              IN  wDownReq.Path[i] =
                      IF tok.t = "lit" THEN tok.v
                      ELSE IF tok.v \in DOMAIN wBefore.Params THEN wBefore.Params[tok.v]
                      ELSE ""

\* a DELETE request without the Id parameter went through the builder of a
\* POST backend whose pattern has the {Id} placeholder
RequestBuiltWitness ==
    /\ wMw = "RequestBuilder"
    /\ wDownCalls = 1
    /\ wBefore.Method = "DELETE"
    /\ wBefore.Params = NoParams
    /\ wDownReq.Method = "POST"
    /\ wDownReq.Path = <<"/u/", "">>

\* C32: when the context is done by the time the exchange has returned, the
\* HTTP caller returns the context's error and no response, whether the
\* exchange gave a 200/201 response or failed; a transport error is returned
\* only under a context that is not done
HTTPContextFirst ==
    (pPc = "returned" /\ pExchange # "none") =>
        /\ pCtxDone => pRet = HTTPResult(NilResponse, CtxErr)
        /\ pRet.err = TransportErr => ~pCtxDone

\* a 200 response arrived, the context was done, the caller returned the
\* context's error
HTTPContextFirstWitness ==
    /\ pPc = "returned"
    /\ pExchange = "response"
    /\ pStatusCode = StatusOK
    /\ pCtxDone
    /\ pRet = HTTPResult(NilResponse, CtxErr)

\* C33: a concurrent middleware that has returned a success has cancelled
\* its child context; none of its steps cancels the caller's context; a
\* running worker always finds room in the result channel, also after the
\* middleware has returned, so that in the end no worker is left running
ConcurrentCancelsChild ==
    /\ []((kPc = "returned" /\ kRet.resp # NoResponse) => kChildDone)
    /\ [][kPc' # kPc => kCtxDone' = kCtxDone]_vars
    /\ [](\A i \in DOMAIN kWorker :
            kWorker[i] = "running" => Len(kChan) < ChannelCapacity(kLayer))
    /\ <>[](\A i \in DOMAIN kWorker : kWorker[i] # "running")

\* the middleware returned the first success with the child context
\* cancelled, and the other two workers delivered their tuples without a
\* receiver
ConcurrentCancelsChildWitness ==
    /\ kPc = "returned"
    /\ kRet.resp # NoResponse
    /\ kChildDone
    /\ ~kCtxDone
    /\ Len(kSeen) = 1
    /\ Len(kChan) = 2
    /\ \A i \in DOMAIN kWorker : kWorker[i] = "sent"

\* C34: the context the proxy runs under is derived from the inbound
\* request's context: once the client is gone while the proxy runs, the
\* proxy's context is done, and a request whose client went away before the
\* proxy returned is answered with 500
InboundCancelPropagates ==
    /\ (hPc = "proxy" /\ hInboundDone) =>
          CtxDone(Parent(hKind), hInboundDone, hProxyCtx, hNow)
    /\ (hPc = "returned" /\ hProxyCalls = 1 /\ hInboundDone) =>
          hStatus = StatusInternalServerError

\* C35: concurrent Host() calls on one random balancer are never inside
\* its random source at the same time, and every call that got past the
\* guards returns a member of the host list
RandomSourceExclusive ==
    bKind = "random" =>
        /\ Cardinality(bRnd) <= 1
        /\ \A g \in Goroutines : bPc[g] # "panicked"
        /\ \A g \in Goroutines :
              bRet[g].err = NilErr /\ bRet[g].returned =>
                 \E i \in 1..Len(bHosts) : bRet[g].host = bHosts[i]

\* C36: a round-robin Host() call that fails on a subscriber error or an
\* empty list leaves the counter as it was: the counter is the number of
\* calls that returned a host, and the latest of them returned the host the
\* rotation gives for that number, however many calls failed in between
FailedHostKeepsCounter ==
    bKind = "roundRobin" =>
        /\ bCounter = bPicked
        /\ (bPicked >= 1 /\ bHosts # <<>>) => bLast = RoundRobinHost(bHosts, bPicked)

\* two calls failed and two returned hosts, the second of them the second
\* host
FailedHostKeepsCounterWitness ==
    /\ bKind = "roundRobin"
    /\ bSubscriber = "flaky"
    /\ Len(bHosts) >= 2
    /\ bIssued = 4
    /\ bPicked = 2
    /\ \A g \in Goroutines : bPc[g] = "idle"
    /\ bLast = bHosts[2]
    /\ \E g \in Goroutines : bRet[g].err # NilErr

\* the orders the entries of a list can be written in
Reorderings(s) ==
    { [i \in 1..Len(s) |-> s[p[i]]] :
        p \in { q \in [1..Len(s) -> 1..Len(s)] :
                  \A i, j \in 1..Len(s) : q[i] = q[j] => i = j } }

\* C37: the whitelist filter gives the same output for every order the
\* whitelist's entries are written in, for example for <<"a", "a.x">> and
\* <<"a.x", "a">>
WhitelistOrderIndependent ==
    ePc = "formatted" =>
        \A other \in Reorderings(eCfg.whitelist) :
            newWhitelistingFilter(other, eIn.Data) =
                newWhitelistingFilter(eCfg.whitelist, eIn.Data)

\* C38: for every key the admitted requests whose instants lie within the
\* trailing WindowSize never number more than RequestsPerSecond, whatever
\* AllowN calls and cleanup ticks came before, and an AllowN that returned
\* false admitted nothing
SlidingWindowLimit ==
    /\ \A k \in LimiterKeys :
          Len(After(lAdmitted[k], lNow - lCfg.WindowSize)) <= lCfg.RequestsPerSecond
    /\ ~lLast.ok => lLast.admitted = 0

\* the executions that have written a part of the check and not yet all
Updating == { e \in Executions : hcExec[e].pc = "writing" }

\* C39: an execution updates the check's fields only while it holds the
\* checker's mutex, so GetHealth is never inside its read lock while an
\* execution is updating the check, and no two executions update it at the
\* same time
HealthWritesLocked ==
    /\ \A e \in Updating : hcMu.w = e
    /\ hcReader = "reading" => Updating = {}
    /\ Cardinality(Updating) <= 1

====
